---- MODULE Spec2Model ----
(***************************************************************************)
(* Model of libusbhsfs' usbhsfs_mount.c (GPL build): detection of the      *)
(* filesystems of a USB mass-storage logical unit (SFD / MBR / EBR / GPT), *)
(* the registry of mounted volumes, the devoptab device-ID allocator and   *)
(* the default-device handling.                                            *)
(*                                                                         *)
(* Conventions.                                                            *)
(*  - A C pointer that may be NULL is a sequence of length 0 (NULL) or 1.  *)
(*  - A C string is a sequence of one-character strings.                   *)
(*  - A filesystem context is identified by <<lun, position>> (its place   *)
(*    in lun_ctx->fs_ctx); fs_idx is kept 0-based as in the source.        *)
(*  - u32 bit masks of flags are sets of flag names.                       *)
(*  - Functions of the source are operators from a program state record to *)
(*    a program state record; the record field "ret" holds the return      *)
(*    value and "log" the calls made to the external collaborators.        *)
(***************************************************************************)
EXTENDS Integers, Sequences, FiniteSets, TLC

VARIABLES
    luns,                       \* lun id -> UsbHsFsDriveLogicalUnitContext
    g_devoptabDeviceIds,        \* u32 *g_devoptabDeviceIds, g_devoptabDeviceCount is its Len
    g_devoptabDefaultDeviceId,  \* u32 g_devoptabDefaultDeviceId
    g_fatFsVolumeTable,         \* bool g_fatFsVolumeTable[FF_VOLUMES], indexed 0..FF_VOLUMES-1
    g_fileSystemMountFlags,     \* u32 g_fileSystemMountFlags
    devoptab_list,              \* newlib's device table (slot 1 is the SD card's)
    defaultDevice,              \* newlib's default device (a slot number)
    driverMounts,               \* volumes currently mounted inside the FatFs / NTFS-3G / lwext4 drivers
    disk,                       \* lun id -> content of the block device behind the logical unit
    g_devoptabDefaultDeviceMutex, \* Mutex g_devoptabDefaultDeviceMutex: the thread holding it, or NoThread
    threads,                    \* thread -> the call it is making and its position in it
    last                        \* the last operation performed, its inputs, its result and the state before it

vars == <<luns, g_devoptabDeviceIds, g_devoptabDefaultDeviceId, g_fatFsVolumeTable,
          g_fileSystemMountFlags, devoptab_list, defaultDevice, driverMounts, disk,
          g_devoptabDefaultDeviceMutex, threads, last>>

----------------------------------------------------------------------------
(* Bounds of the model. *)

MaxVolumes == 3
FF_VOLUMES == 2

(* Program constants. *)

DEVOPTAB_INVALID_ID == -1
FsType_Invalid == 0
FsType_Unsupported == 1
FsType_FAT == 2
FsType_NTFS == 3
FsType_EXT == 4

MOUNT_NAME_PREFIX == <<"u", "m", "s">>

LunIds == {0, 1}

NULL == <<>>

UsbHsFsMountFlags_Default == {"UpdateAccessTimes", "ShowHiddenFiles", "ReplayJournal"}

MountFlagChoices == {UsbHsFsMountFlags_Default, UsbHsFsMountFlags_Default \cup {"ReadOnly"}}

----------------------------------------------------------------------------
(* C strings. *)

DigitChars == <<"0", "1", "2", "3", "4", "5", "6", "7", "8", "9">>

IsDigit(c) == \E i \in 1..10 : DigitChars[i] = c

DigitValue(c) == (CHOOSE i \in 1..10 : DigitChars[i] = c) - 1

RECURSIVE UIntToStr(_)
UIntToStr(n) ==
    IF n < 10 THEN <<DigitChars[n + 1]>>
    ELSE UIntToStr(n \div 10) \o <<DigitChars[(n % 10) + 1]>>

\* The leading decimal digits of str, read as sscanf's %u does; <<>> when str has none.
RECURSIVE ScanUInt(_, _)
ScanUInt(str, acc) ==
    IF str # <<>> /\ IsDigit(Head(str))
    THEN ScanUInt(Tail(str), <<(IF acc = <<>> THEN 0 ELSE acc[1]) * 10 + DigitValue(Head(str))>>)
    ELSE acc

HasPrefix(str, prefix) ==
    /\ Len(str) >= Len(prefix)
    /\ SubSeq(str, 1, Len(prefix)) = prefix

\* A mount name that leaves the device ID out.
MountName_NoId(device_id) == MOUNT_NAME_PREFIX

\* sprintf(name, MOUNT_NAME_PREFIX "%u", device_id)
MountName(device_id) == MOUNT_NAME_PREFIX \o UIntToStr(device_id)

\* sprintf(name, "%s:", fs_ctx->name)
WithColon(name) == name \o <<":">>

\* sscanf(name, MOUNT_NAME_PREFIX "%u", &cur_device_id): <<>> unless it returns 1, else <<cur_device_id>>
ScanMountName(name) ==
    IF HasPrefix(name, MOUNT_NAME_PREFIX)
    THEN ScanUInt(SubSeq(name, Len(MOUNT_NAME_PREFIX) + 1, Len(name)), <<>>)
    ELSE <<>>

----------------------------------------------------------------------------
(* newlib's device table (iosupport.c), the collaborator behind AddDevice,  *)
(* RemoveDevice, FindDevice, setDefaultDevice and GetDeviceOpTab.           *)

StdNullName == <<"s", "t", "d", "n", "u", "l", "l">>
SdmcName == <<"s", "d", "m", "c">>

dotab_stdnull == [name |-> StdNullName, deviceData |-> NULL]
dotab_sdmc == [name |-> SdmcName, deviceData |-> NULL]

DevSlots == 1 .. (MaxVolumes + 1)

\* FindDevice(name) for a name holding a ':' ; -1 when no device matches.
FindDevice(list, name) ==
    LET matches(i) ==
            LET dn == list[i].name
            IN  /\ HasPrefix(name, dn)
                /\ Len(name) > Len(dn)
                /\ \/ name[Len(dn) + 1] = ":"
                   \/ /\ IsDigit(name[Len(dn) + 1])
                      /\ Len(name) > Len(dn) + 1
                      /\ name[Len(dn) + 2] = ":"
        hits == {i \in DevSlots : matches(i)}
    IN  IF hits = {} THEN -1 ELSE CHOOSE i \in hits : \A j \in hits : i <= j

\* AddDevice(device): the slot taken (a slot of the same name or the first free one), -1 when the table is full.
AddDeviceSlot(list, device) ==
    LET hits == {i \in DevSlots : list[i].name = device.name \/ list[i].name = StdNullName}
    IN  IF hits = {} THEN -1 ELSE CHOOSE i \in hits : \A j \in hits : i <= j

\* RemoveDevice(name)
RemoveDevice(list, name) ==
    LET dev == FindDevice(list, name)
    IN  IF dev # -1 THEN [list EXCEPT ![dev] = dotab_stdnull] ELSE list

\* setDefaultDevice(device)
setDefaultDevice(cur, device) == IF device \in DevSlots THEN device ELSE cur

\* GetDeviceOpTab("")
GetDefaultDeviceOpTab(s) == s.devoptab_list[s.defaultDevice]

----------------------------------------------------------------------------
(* Bytes, buffers and the block device.                                     *)
(*                                                                          *)
(* A block is a function from the byte offsets it was written at to bytes;  *)
(* every other byte of it is 0. A buffer is the memory a block was read     *)
(* into: "data" are its bytes, "len" its allocated length and "tail" the    *)
(* bytes that follow the allocation in memory (what a read past the end of  *)
(* the buffer sees).                                                        *)

BOOT_SIGNATURE == 43605
MBR_PARTITION_COUNT == 4

Buffer(data, len, tail) == [data |-> data, len |-> len, tail |-> tail]

Byte(buf, off) ==
    IF off < buf.len
    THEN (IF off \in DOMAIN buf.data THEN buf.data[off] ELSE 0)
    ELSE (IF (off - buf.len) \in DOMAIN buf.tail THEN buf.tail[off - buf.len] ELSE 0)

\* Little-endian unsigned integer of n bytes at off.
RECURSIVE LE(_, _, _)
LE(buf, off, n) == IF n = 0 THEN 0 ELSE Byte(buf, off) + 256 * LE(buf, off + 1, n - 1)

Bytes(buf, off, n) == [i \in 1 .. n |-> Byte(buf, off + i - 1)]

\* a & b for a >= 0 and b >= -1 (two's complement: every bit of -1 is set)
RECURSIVE BitAnd(_, _)
BitAnd(a, b) ==
    IF a = 0 \/ b = 0 THEN 0
    ELSE IF b = -1 THEN a
    ELSE (a % 2) * (b % 2) + 2 * BitAnd(a \div 2, b \div 2)

----------------------------------------------------------------------------
(* Program state records. *)

State ==
    [luns |-> luns,
     g_devoptabDeviceIds |-> g_devoptabDeviceIds,
     g_devoptabDefaultDeviceId |-> g_devoptabDefaultDeviceId,
     g_fatFsVolumeTable |-> g_fatFsVolumeTable,
     g_fileSystemMountFlags |-> g_fileSystemMountFlags,
     devoptab_list |-> devoptab_list,
     defaultDevice |-> defaultDevice,
     driverMounts |-> driverMounts,
     disk |-> disk,
     block |-> Buffer(<<>>, 0, <<>>),
     plan |-> [failing |-> {}, fault |-> "none"],
     attempts |-> 0,
     hang |-> FALSE,
     ret |-> FALSE,
     log |-> <<>>]

Logged(s, event) == [s EXCEPT !.log = Append(@, event)]

Returning(s, value) == [s EXCEPT !.ret = value]

FsCtx(s, p) == s.luns[p[1]].fs_ctx[p[2]]

SetFsCtx(s, p, ctx) == [s EXCEPT !.luns[p[1]].fs_ctx[p[2]] = ctx]

\* A variant of NewFsCtx that numbers the contexts of a logical unit from one.
NewFsCtx_OneBased(fs_idx, fs_type, flags) ==
    [fs_idx |-> fs_idx + 1, fs_type |-> fs_type, flags |-> flags, device_id |-> 0,
     name |-> NULL, cwd |-> NULL, device |-> NULL,
     fatfs |-> NULL, ntfs |-> NULL, ext |-> NULL]

\* calloc(1, sizeof(UsbHsFsDriveLogicalUnitFileSystemContext)) followed by the assignments of RegisterVolume
NewFsCtx(fs_idx, fs_type, flags) ==
    [fs_idx |-> fs_idx, fs_type |-> fs_type, flags |-> flags, device_id |-> 0,
     name |-> NULL, cwd |-> NULL, device |-> NULL,
     fatfs |-> NULL, ntfs |-> NULL, ext |-> NULL]

\* usbHsFsDriveIsValidLogicalUnitFileSystemContext (usbhsfs_drive.h)
usbHsFsDriveIsValidLogicalUnitFileSystemContext(ctx) ==
    /\ ctx.fs_type > FsType_Unsupported
    /\ ctx.name # NULL
    /\ ctx.cwd # NULL
    /\ ctx.device # NULL
    /\ \/ ctx.fs_type = FsType_FAT /\ ctx.fatfs # NULL
       \/ ctx.fs_type = FsType_NTFS /\ ctx.ntfs # NULL
       \/ ctx.fs_type = FsType_EXT /\ ctx.ext # NULL

----------------------------------------------------------------------------
(* Device-ID allocator. *)

\* The scan without its restart: an ID found in the table is not looked for again from the start.
RECURSIVE AvailableIdScan_NoRestart(_, _, _)
AvailableIdScan_NoRestart(ids, i, ret) ==
    IF i >= Len(ids) THEN ret
    ELSE IF ret = ids[i + 1] THEN AvailableIdScan_NoRestart(ids, i + 1, ret + 1)
    ELSE AvailableIdScan_NoRestart(ids, i + 1, ret)

\* The scan of usbHsFsMountGetAvailableDevoptabDeviceId: i is 0-based, as in the source.
RECURSIVE AvailableIdScan(_, _, _)
AvailableIdScan(ids, i, ret) ==
    IF i >= Len(ids) THEN ret
    ELSE IF ret = ids[i + 1] THEN AvailableIdScan(ids, 0, ret + 1)
    ELSE AvailableIdScan(ids, i + 1, ret)

\* The allocator as a count of the IDs in use.
usbHsFsMountGetAvailableDevoptabDeviceId_LengthBug(ids) == Len(ids)

usbHsFsMountGetAvailableDevoptabDeviceId(ids) ==
    IF Len(ids) = 0 THEN 0 ELSE AvailableIdScan(ids, 0, 0)

\* A destruction that leaves the ID in the table.
RemoveFirstId_KeepsId(ids, device_id) == ids

\* Removal of device_id from g_devoptabDeviceIds in usbHsFsMountDestroyLogicalUnitFileSystemContext
RECURSIVE RemoveFirstId(_, _)
RemoveFirstId(ids, device_id) ==
    IF ids = <<>> THEN <<>>
    ELSE IF Head(ids) = device_id THEN Tail(ids)
    ELSE <<Head(ids)>> \o RemoveFirstId(Tail(ids), device_id)

----------------------------------------------------------------------------
(* Failure points of a registration: the allocation or collaborator call    *)
(* that fails, "none" when every one of them succeeds.                      *)

CommonFaults == {"none", "realloc_fs_ctx", "calloc_fs_ctx"}

DevoptabFaults == {"calloc_name", "calloc_cwd", "calloc_device", "AddDevice", "realloc_device_ids"}

FatFaults == {"calloc_fatfs", "ff_mount"}

NtfsFaults == {"calloc_ntfs", "calloc_ntfs_dd", "ntfs_device_alloc", "ntfs_device_mount", "ntfs_volume_get_free_space"}

ExtFaults == {"calloc_ext", "ext_disk_io_alloc_blockdev", "ext_mount"}

FaultsFor(fs_type) ==
    CommonFaults \cup DevoptabFaults \cup
    (IF fs_type = FsType_FAT THEN FatFaults
     ELSE IF fs_type = FsType_NTFS THEN NtfsFaults
     ELSE IF fs_type = FsType_EXT THEN ExtFaults
     ELSE {})

MountableFsTypes == {FsType_FAT, FsType_NTFS, FsType_EXT}

DriverMount(fs_type, key) == [fs |-> fs_type, key |-> key]

----------------------------------------------------------------------------
(* usbHsFsMountRegisterDevoptabDevice *)

\* A failure that leaves the mount name and the working directory allocated.
RegisterDevoptabDeviceCleanup_Leaks(s, p, device_id) ==
    SetFsCtx(Returning(s, FALSE), p,
             [FsCtx(s, p) EXCEPT !.device_id = device_id, !.name = MountName(device_id), !.cwd = <<"/">>])

\* The "end:" block of usbHsFsMountRegisterDevoptabDevice when ret is false.
RegisterDevoptabDeviceCleanup(s, p, device_id) ==
    SetFsCtx(Returning(s, FALSE), p,
             [FsCtx(s, p) EXCEPT !.device_id = device_id, !.name = NULL, !.cwd = NULL, !.device = NULL])

usbHsFsMountRegisterDevoptabDevice(s, p, fault) ==
    LET fs_ctx == FsCtx(s, p)
        device_id == usbHsFsMountGetAvailableDevoptabDeviceId(s.g_devoptabDeviceIds)
        name == MountName(device_id)
        device == [name |-> name, deviceData |-> p]
        ad_res == IF fault = "AddDevice" THEN -1 ELSE AddDeviceSlot(s.devoptab_list, device)
    IN  IF fault = "calloc_name" THEN Returning(s, FALSE)
        ELSE IF fault \in {"calloc_cwd", "calloc_device"} \/ fs_ctx.fs_type \notin MountableFsTypes
        THEN RegisterDevoptabDeviceCleanup(s, p, device_id)
        ELSE IF ad_res < 0
        THEN RegisterDevoptabDeviceCleanup(Logged(s, <<"AddDevice", name, FALSE>>), p, device_id)
        ELSE IF fault = "realloc_device_ids"
        THEN LET added == [s EXCEPT !.devoptab_list[ad_res] = device]
                 removed == [added EXCEPT !.devoptab_list = RemoveDevice(@, WithColon(name))]
             IN  RegisterDevoptabDeviceCleanup(
                     Logged(Logged(removed, <<"AddDevice", name, TRUE>>), <<"RemoveDevice", name>>),
                     p, device_id)
        ELSE LET added == [s EXCEPT !.devoptab_list[ad_res] = device,
                                    !.g_devoptabDeviceIds = Append(@, device_id)]
                 done == SetFsCtx(added, p,
                             [fs_ctx EXCEPT !.device_id = device_id, !.name = name,
                                            !.cwd = <<"/">>, !.device = <<device>>])
             IN  Returning(Logged(done, <<"AddDevice", name, TRUE>>), TRUE)

----------------------------------------------------------------------------
(* FAT volumes *)

\* for(pdrv = 0; pdrv < FF_VOLUMES; pdrv++) if (!g_fatFsVolumeTable[pdrv]) break;
FreeFatFsVolumeSlot(table) ==
    LET free == {pdrv \in 0 .. (FF_VOLUMES - 1) : ~table[pdrv]}
    IN  IF free = {} THEN FF_VOLUMES ELSE CHOOSE pdrv \in free : \A q \in free : pdrv <= q

usbHsFsMountRegisterFatVolume(s, p, block_addr, fault) ==
    LET lun_ctx == s.luns[p[1]]
        fs_ctx == FsCtx(s, p)
        pdrv == FreeFatFsVolumeSlot(s.g_fatFsVolumeTable)
        fatfs == [pdrv |-> pdrv, winsect |-> block_addr,
                  ro_flag |-> ("ReadOnly" \in fs_ctx.flags) \/ lun_ctx.write_protect]
    IN  IF pdrv = FF_VOLUMES \/ fault = "calloc_fatfs" THEN Returning(s, FALSE)
        ELSE IF fault = "ff_mount" THEN Returning(Logged(s, <<"ff_mount", pdrv, FALSE>>), FALSE)
        ELSE LET mounted == Logged([SetFsCtx(s, p, [fs_ctx EXCEPT !.fatfs = <<fatfs>>])
                                       EXCEPT !.driverMounts = @ \cup {DriverMount(FsType_FAT, <<pdrv>>)}],
                                   <<"ff_mount", pdrv, TRUE>>)
                 \* end: the slot is taken on success, the volume unmounted on failure
                 end(registered) ==
                     IF registered.ret
                     THEN [registered EXCEPT !.g_fatFsVolumeTable[pdrv] = TRUE]
                     ELSE Logged([SetFsCtx(registered, p, [FsCtx(registered, p) EXCEPT !.fatfs = NULL])
                                     EXCEPT !.driverMounts = @ \ {DriverMount(FsType_FAT, <<pdrv>>)}],
                                 <<"ff_unmount", pdrv>>)
             IN  end(usbHsFsMountRegisterDevoptabDevice(mounted, p, fault))

\* An unregistration that leaves the slot of the volume marked busy.
usbHsFsMountUnregisterFatVolume_KeepsSlot(s, p) ==
    LET pdrv == FsCtx(s, p).fatfs[1].pdrv
    IN  Logged([SetFsCtx(s, p, [FsCtx(s, p) EXCEPT !.fatfs = NULL])
                   EXCEPT !.driverMounts = @ \ {DriverMount(FsType_FAT, <<pdrv>>)}],
               <<"ff_unmount", pdrv>>)

usbHsFsMountUnregisterFatVolume(s, p) ==
    LET pdrv == FsCtx(s, p).fatfs[1].pdrv
    IN  Logged([SetFsCtx(s, p, [FsCtx(s, p) EXCEPT !.fatfs = NULL])
                   EXCEPT !.g_fatFsVolumeTable[pdrv] = FALSE,
                          !.driverMounts = @ \ {DriverMount(FsType_FAT, <<pdrv>>)}],
               <<"ff_unmount", pdrv>>)

----------------------------------------------------------------------------
(* NTFS volumes *)

NtfsMountFlags(flags, write_protect) ==
    (IF "ReadOnly" \in flags \/ write_protect THEN {"NTFS_MNT_RDONLY"} ELSE {}) \cup
    (IF "ReplayJournal" \in flags THEN {"NTFS_MNT_RECOVER"} ELSE {}) \cup
    (IF "IgnoreHibernation" \in flags THEN {"NTFS_MNT_IGNORE_HIBERFILE"} ELSE {})

usbHsFsMountRegisterNtfsVolume(s, p, block_addr, fault) ==
    LET lun_ctx == s.luns[p[1]]
        fs_ctx == FsCtx(s, p)
        device_id == usbHsFsMountGetAvailableDevoptabDeviceId(s.g_devoptabDeviceIds)
        ntfs == [id |-> device_id, sector_start |-> block_addr,
                 flags |-> NtfsMountFlags(fs_ctx.flags, lun_ctx.write_protect),
                 update_access_times |-> "UpdateAccessTimes" \in fs_ctx.flags,
                 ignore_read_only_attr |-> "IgnoreFileReadOnlyAttribute" \in fs_ctx.flags]
        with_id == SetFsCtx(s, p, [fs_ctx EXCEPT !.device_id = device_id])
    IN  IF fault \in {"calloc_ntfs", "calloc_ntfs_dd"} THEN Returning(s, FALSE)
        ELSE IF fault = "ntfs_device_alloc" THEN Returning(with_id, FALSE)
        ELSE IF fault = "ntfs_device_mount"
        THEN Returning(Logged(with_id, <<"ntfs_device_mount", p, FALSE>>), FALSE)
        ELSE LET mounted == Logged([SetFsCtx(with_id, p, [FsCtx(with_id, p) EXCEPT !.ntfs = <<ntfs>>])
                                       EXCEPT !.driverMounts = @ \cup {DriverMount(FsType_NTFS, p)}],
                                   <<"ntfs_device_mount", p, TRUE>>)
                 unmounted(t) == Logged([SetFsCtx(t, p, [FsCtx(t, p) EXCEPT !.ntfs = NULL])
                                            EXCEPT !.driverMounts = @ \ {DriverMount(FsType_NTFS, p)}],
                                        <<"ntfs_umount", p>>)
                 end(registered) == IF registered.ret THEN registered ELSE unmounted(registered)
             IN  IF fault = "ntfs_volume_get_free_space" THEN Returning(unmounted(mounted), FALSE)
                 ELSE end(usbHsFsMountRegisterDevoptabDevice(mounted, p, fault))

usbHsFsMountUnregisterNtfsVolume(s, p) ==
    Logged([SetFsCtx(s, p, [FsCtx(s, p) EXCEPT !.ntfs = NULL])
               EXCEPT !.driverMounts = @ \ {DriverMount(FsType_NTFS, p)}],
           <<"ntfs_umount", p>>)

----------------------------------------------------------------------------
(* EXT volumes *)

\* The EXT registration that leaves the volume mounted when the device registration fails.
usbHsFsMountRegisterExtVolume_NoUnmount(s, p, block_addr, block_count, fault) ==
    LET fs_ctx == FsCtx(s, p)
        device_id == usbHsFsMountGetAvailableDevoptabDeviceId(s.g_devoptabDeviceIds)
        ext == [id |-> device_id, dev_name |-> MountName(device_id), flags |-> fs_ctx.flags,
                part_offset |-> block_addr, part_size |-> block_count]
        with_id == SetFsCtx(s, p, [fs_ctx EXCEPT !.device_id = device_id])
    IN  IF fault \in {"calloc_ext", "ext_disk_io_alloc_blockdev"} THEN Returning(s, FALSE)
        ELSE IF fault = "ext_mount" THEN Returning(Logged(with_id, <<"ext_mount", p, FALSE>>), FALSE)
        ELSE usbHsFsMountRegisterDevoptabDevice(
                 Logged([SetFsCtx(with_id, p, [FsCtx(with_id, p) EXCEPT !.ext = <<ext>>])
                            EXCEPT !.driverMounts = @ \cup {DriverMount(FsType_EXT, p)}],
                        <<"ext_mount", p, TRUE>>),
                 p, fault)

usbHsFsMountRegisterExtVolume(s, p, block_addr, block_count, fault) ==
    LET fs_ctx == FsCtx(s, p)
        device_id == usbHsFsMountGetAvailableDevoptabDeviceId(s.g_devoptabDeviceIds)
        ext == [id |-> device_id, dev_name |-> MountName(device_id), flags |-> fs_ctx.flags,
                part_offset |-> block_addr, part_size |-> block_count]
        with_id == SetFsCtx(s, p, [fs_ctx EXCEPT !.device_id = device_id])
    IN  IF fault \in {"calloc_ext", "ext_disk_io_alloc_blockdev"} THEN Returning(s, FALSE)
        ELSE IF fault = "ext_mount" THEN Returning(Logged(with_id, <<"ext_mount", p, FALSE>>), FALSE)
        ELSE LET mounted == Logged([SetFsCtx(with_id, p, [FsCtx(with_id, p) EXCEPT !.ext = <<ext>>])
                                       EXCEPT !.driverMounts = @ \cup {DriverMount(FsType_EXT, p)}],
                                   <<"ext_mount", p, TRUE>>)
                 end(registered) ==
                     IF registered.ret THEN registered
                     ELSE Logged([SetFsCtx(registered, p, [FsCtx(registered, p) EXCEPT !.ext = NULL])
                                     EXCEPT !.driverMounts = @ \ {DriverMount(FsType_EXT, p)}],
                                 <<"ext_umount", p>>)
             IN  end(usbHsFsMountRegisterDevoptabDevice(mounted, p, fault))

usbHsFsMountUnregisterExtVolume(s, p) ==
    Logged([SetFsCtx(s, p, [FsCtx(s, p) EXCEPT !.ext = NULL])
               EXCEPT !.driverMounts = @ \ {DriverMount(FsType_EXT, p)}],
           <<"ext_umount", p>>)

----------------------------------------------------------------------------
(* usbHsFsMountRegisterVolume *)

\* switch(fs_type) of usbHsFsMountRegisterVolume
\* A dispatch that takes every volume for a FAT volume.
RegisterVolumeDispatch_FatOnly(s, p, block_addr, block_count, fs_type, fault) ==
    usbHsFsMountRegisterFatVolume(s, p, block_addr, fault)

RegisterVolumeDispatch(s, p, block_addr, block_count, fs_type, fault) ==
    IF fs_type = FsType_FAT THEN usbHsFsMountRegisterFatVolume(s, p, block_addr, fault)
    ELSE IF fs_type = FsType_NTFS THEN usbHsFsMountRegisterNtfsVolume(s, p, block_addr, fault)
    ELSE IF fs_type = FsType_EXT THEN usbHsFsMountRegisterExtVolume(s, p, block_addr, block_count, fault)
    ELSE Returning(s, FALSE)

\* A failure that leaves the appended context in place.
RegisterVolumeRollback_KeepsEntry(s, lun) == s

\* The "end:" block of usbHsFsMountRegisterVolume when ret is false and the context was appended.
RegisterVolumeRollback(s, lun) ==
    [s EXCEPT !.luns[lun].fs_ctx = SubSeq(@, 1, Len(@) - 1)]

usbHsFsMountRegisterVolume(s, lun, block_addr, block_count, fs_type, fault) ==
    LET fs_count == Len(s.luns[lun].fs_ctx)
        p == <<lun, fs_count + 1>>
        fs_ctx == NewFsCtx(fs_count, fs_type, s.g_fileSystemMountFlags)
        appended == [s EXCEPT !.luns[lun].fs_ctx = Append(@, fs_ctx)]
        \* end: if (!ret && fs_ctx) ...
        end(dispatched) == IF dispatched.ret THEN dispatched ELSE RegisterVolumeRollback(dispatched, lun)
    IN  IF fault \in {"realloc_fs_ctx", "calloc_fs_ctx"}
        THEN Returning(Logged(s, <<"RegisterVolume", fs_type, block_addr, block_count>>), FALSE)
        ELSE end(RegisterVolumeDispatch(
                     Logged(appended, <<"RegisterVolume", fs_type, block_addr, block_count>>),
                     p, block_addr, block_count, fs_type, fault))

----------------------------------------------------------------------------
(* Default device *)

\* The default device is never given up.
usbHsFsMountUnsetDefaultDevoptabDevice_Never(s, device_id) == s

\* The default device is given up whichever volume goes.
usbHsFsMountUnsetDefaultDevoptabDevice_Always(s, device_id) ==
    [s EXCEPT !.defaultDevice = setDefaultDevice(@, FindDevice(s.devoptab_list, WithColon(SdmcName))),
              !.g_devoptabDefaultDeviceId = DEVOPTAB_INVALID_ID]

\* An unset that gives the default device back to the SD card and keeps the recorded ID.
usbHsFsMountUnsetDefaultDevoptabDevice_KeepsId(s, device_id) ==
    IF s.g_devoptabDefaultDeviceId = DEVOPTAB_INVALID_ID \/ s.g_devoptabDefaultDeviceId # device_id
    THEN s
    ELSE [s EXCEPT !.defaultDevice = setDefaultDevice(@, FindDevice(s.devoptab_list, WithColon(SdmcName)))]

usbHsFsMountUnsetDefaultDevoptabDevice(s, device_id) ==
    IF s.g_devoptabDefaultDeviceId = DEVOPTAB_INVALID_ID \/ s.g_devoptabDefaultDeviceId # device_id
    THEN s
    ELSE LET cur_default_devoptab == GetDefaultDeviceOpTab(s)
             scanned == ScanMountName(cur_default_devoptab.name)
             reset == IF /\ Len(cur_default_devoptab.name) >= 4
                         /\ scanned # <<>>
                         /\ scanned[1] = device_id
                      THEN Logged([s EXCEPT !.defaultDevice =
                                      setDefaultDevice(@, FindDevice(s.devoptab_list, WithColon(SdmcName)))],
                                  <<"setDefaultDevice", SdmcName>>)
                      ELSE s
         IN  [reset EXCEPT !.g_devoptabDefaultDeviceId = DEVOPTAB_INVALID_ID]

usbHsFsMountSetDefaultDevoptabDevice(s, p) ==
    LET fs_ctx == FsCtx(s, p)
        cur_default_devoptab == GetDefaultDeviceOpTab(s)
        new_default_device == FindDevice(s.devoptab_list, WithColon(fs_ctx.name))
        switched == Logged([s EXCEPT !.defaultDevice = setDefaultDevice(@, new_default_device)],
                           <<"setDefaultDevice", fs_ctx.name>>)
    IN  IF Len(s.g_devoptabDeviceIds) = 0 \/ ~usbHsFsDriveIsValidLogicalUnitFileSystemContext(fs_ctx)
        THEN Returning(s, FALSE)
        ELSE IF cur_default_devoptab.deviceData = p THEN Returning(s, TRUE)
        ELSE IF new_default_device < 0 THEN Returning(s, FALSE)
        ELSE IF GetDefaultDeviceOpTab(switched).deviceData # p THEN Returning(switched, FALSE)
        ELSE Returning([switched EXCEPT !.g_devoptabDefaultDeviceId = fs_ctx.device_id], TRUE)

----------------------------------------------------------------------------
(* usbHsFsMountDestroyLogicalUnitFileSystemContext *)

\* switch(fs_ctx->fs_type) of usbHsFsMountDestroyLogicalUnitFileSystemContext
DestroyUnmount(s, p) ==
    LET fs_type == FsCtx(s, p).fs_type
    IN  IF fs_type = FsType_FAT THEN usbHsFsMountUnregisterFatVolume(s, p)
        ELSE IF fs_type = FsType_NTFS THEN usbHsFsMountUnregisterNtfsVolume(s, p)
        ELSE IF fs_type = FsType_EXT THEN usbHsFsMountUnregisterExtVolume(s, p)
        ELSE s

\* A destruction that calls the driver unmount routine before it releases the device ID.
usbHsFsMountDestroyLogicalUnitFileSystemContext_UnmountFirst(s, p) ==
    LET fs_ctx == FsCtx(s, p)
        unset == usbHsFsMountUnsetDefaultDevoptabDevice(s, fs_ctx.device_id)
        removed == Logged([unset EXCEPT !.devoptab_list = RemoveDevice(@, WithColon(fs_ctx.name))],
                          <<"RemoveDevice", fs_ctx.name>>)
        freed == SetFsCtx(removed, p, [fs_ctx EXCEPT !.device = NULL, !.cwd = NULL, !.name = NULL])
        released(unmounted) ==
            Logged([unmounted EXCEPT !.g_devoptabDeviceIds = RemoveFirstId(@, fs_ctx.device_id)],
                   <<"ReleaseDeviceId", fs_ctx.device_id>>)
    IN  IF ~usbHsFsDriveIsValidLogicalUnitFileSystemContext(fs_ctx) THEN s
        ELSE released(DestroyUnmount(freed, p))

usbHsFsMountDestroyLogicalUnitFileSystemContext(s, p) ==
    LET fs_ctx == FsCtx(s, p)
        unset == usbHsFsMountUnsetDefaultDevoptabDevice(s, fs_ctx.device_id)
        removed == Logged([unset EXCEPT !.devoptab_list = RemoveDevice(@, WithColon(fs_ctx.name))],
                          <<"RemoveDevice", fs_ctx.name>>)
        freed == SetFsCtx(removed, p, [fs_ctx EXCEPT !.device = NULL, !.cwd = NULL, !.name = NULL])
        released == Logged([freed EXCEPT !.g_devoptabDeviceIds = RemoveFirstId(@, fs_ctx.device_id)],
                           <<"ReleaseDeviceId", fs_ctx.device_id>>)
    IN  IF ~usbHsFsDriveIsValidLogicalUnitFileSystemContext(fs_ctx) THEN s
        ELSE DestroyUnmount(released, p)

\* A count of the contexts the logical units hold, destroyed or not.
usbHsFsMountGetDevoptabDeviceCount_Contexts(s) ==
    Cardinality({p \in (DOMAIN s.luns) \X (1 .. MaxVolumes) : p[2] <= Len(s.luns[p[1]].fs_ctx)})

\* usbHsFsMountGetDevoptabDeviceCount
usbHsFsMountGetDevoptabDeviceCount(s) == Len(s.g_devoptabDeviceIds)

\* usbHsFsMountGetFileSystemMountFlags
usbHsFsMountGetFileSystemMountFlags(s) == s.g_fileSystemMountFlags

\* A variant of usbHsFsMountSetFileSystemMountFlags that also gives the new flags to the
\* contexts that are already registered.
usbHsFsMountSetFileSystemMountFlags_Remount(s, flags) ==
    [s EXCEPT !.g_fileSystemMountFlags = flags,
              !.luns = [l \in DOMAIN s.luns |->
                           [s.luns[l] EXCEPT !.fs_ctx =
                               [i \in 1 .. Len(s.luns[l].fs_ctx) |->
                                   [s.luns[l].fs_ctx[i] EXCEPT !.flags = flags]]]]]

\* usbHsFsMountSetFileSystemMountFlags
usbHsFsMountSetFileSystemMountFlags(s, flags) == [s EXCEPT !.g_fileSystemMountFlags = flags]

----------------------------------------------------------------------------
(* Block reads *)

\* usbHsFsScsiReadLogicalUnitBlocks(lun_ctx, buf, lba, count): whether the read succeeds
ReadSucceeds(s, lun, lba, count) ==
    /\ lba + count <= s.luns[lun].block_count
    /\ \A i \in lba .. (lba + count - 1) : i \notin s.disk[lun].bad

DiskBlock(s, lun, lba) ==
    IF lba \in DOMAIN s.disk[lun].blocks THEN s.disk[lun].blocks[lba] ELSE <<>>

\* usbHsFsScsiReadLogicalUnitBlocks(lun_ctx, block, lba, 1); a failed read leaves the buffer as it was
ReadBlock(s, lun, lba) ==
    IF ReadSucceeds(s, lun, lba, 1)
    THEN Returning(Logged([s EXCEPT !.block.data = DiskBlock(s, lun, lba)], <<"read", lba, TRUE>>), TRUE)
    ELSE Returning(Logged(s, <<"read", lba, FALSE>>), FALSE)

----------------------------------------------------------------------------
(* usbHsFsMountInspectVolumeBootRecord *)

ExFatMarker == <<235, 118, 144, 69, 88, 70, 65, 84, 32, 32, 32>>  \* "\xEB\x76\x90" "EXFAT   "
NtfsOemName == <<78, 84, 70, 83, 32, 32, 32, 32>>                 \* "NTFS    "
Fat32FsType == <<70, 65, 84, 51, 50, 32, 32, 32>>                 \* "FAT32   "

\* The legacy FAT test (no boot signature, no filesystem type string). The BPB starts at 0xB of the
\* VolumeBootRecord and is packed; operands are promoted to int, as in C.
LegacyFatHeuristic(buf, block_length) ==
    LET sector_size == LE(buf, 11, 2)
        sectors_per_cluster == LE(buf, 13, 1)
        reserved_sectors == LE(buf, 14, 2)
        num_fats == LE(buf, 16, 1)
        root_dir_entries == LE(buf, 17, 2)
        total_sectors_16 == LE(buf, 19, 2)
        sectors_per_fat == LE(buf, 22, 2)
        total_sectors_32 == LE(buf, 32, 4)
    IN  /\ BitAnd(sector_size, sector_size - 1) = 0
        /\ sector_size <= block_length % 65536
        /\ sectors_per_cluster # 0
        /\ BitAnd(sectors_per_cluster, sectors_per_cluster - 1) = 0
        /\ reserved_sectors # 0
        /\ (num_fats - 1) <= 1
        /\ root_dir_entries # 0
        /\ (total_sectors_16 >= 128 \/ total_sectors_32 >= 65536)
        /\ sectors_per_fat # 0

\* The classification without its last step: a signed block that is no volume stays Invalid.
ClassifyVolumeBootRecord_NoSignedFallback(buf, block_length) ==
    LET jmp_code == Byte(buf, 0)
        boot_sig == LE(buf, 510, 2)
        valid_jump == jmp_code = 235 \/ jmp_code = 233 \/ jmp_code = 232
    IN  IF boot_sig = BOOT_SIGNATURE /\ Bytes(buf, 0, 11) = ExFatMarker THEN FsType_FAT
        ELSE IF boot_sig = BOOT_SIGNATURE /\ Bytes(buf, 3, 8) = NtfsOemName THEN FsType_NTFS
        ELSE IF valid_jump /\ boot_sig = BOOT_SIGNATURE /\ Bytes(buf, 82, 8) = Fat32FsType
        THEN FsType_FAT
        ELSE IF valid_jump /\ LegacyFatHeuristic(buf, block_length) THEN FsType_FAT
        ELSE FsType_Invalid

\* The classification without the "FAT32   " test.
ClassifyVolumeBootRecord_NoFat32(buf, block_length) ==
    LET jmp_code == Byte(buf, 0)
        boot_sig == LE(buf, 510, 2)
        valid_jump == jmp_code = 235 \/ jmp_code = 233 \/ jmp_code = 232
    IN  IF boot_sig = BOOT_SIGNATURE /\ Bytes(buf, 0, 11) = ExFatMarker THEN FsType_FAT
        ELSE IF boot_sig = BOOT_SIGNATURE /\ Bytes(buf, 3, 8) = NtfsOemName THEN FsType_NTFS
        ELSE IF valid_jump /\ LegacyFatHeuristic(buf, block_length) THEN FsType_FAT
        ELSE IF boot_sig = BOOT_SIGNATURE THEN FsType_Unsupported
        ELSE FsType_Invalid

\* A classification that takes the OEM name "NTFS    " without asking for the boot signature.
ClassifyVolumeBootRecord_UnsignedNtfs(buf, block_length) ==
    LET jmp_code == Byte(buf, 0)
        boot_sig == LE(buf, 510, 2)
        valid_jump == jmp_code = 235 \/ jmp_code = 233 \/ jmp_code = 232
    IN  IF boot_sig = BOOT_SIGNATURE /\ Bytes(buf, 0, 11) = ExFatMarker THEN FsType_FAT
        ELSE IF Bytes(buf, 3, 8) = NtfsOemName THEN FsType_NTFS
        ELSE IF valid_jump /\ boot_sig = BOOT_SIGNATURE /\ Bytes(buf, 82, 8) = Fat32FsType
        THEN FsType_FAT
        ELSE IF valid_jump /\ LegacyFatHeuristic(buf, block_length) THEN FsType_FAT
        ELSE IF boot_sig = BOOT_SIGNATURE THEN FsType_Unsupported
        ELSE FsType_Invalid

\* The classification of usbHsFsMountInspectVolumeBootRecord, once the block was read:
\* jmp_boot at 0, oem_name at 3, dos_7_1_ebpb.fs_type at 0x52, boot_sig at 0x1FE.
ClassifyVolumeBootRecord(buf, block_length) ==
    LET jmp_code == Byte(buf, 0)
        boot_sig == LE(buf, 510, 2)
        valid_jump == jmp_code = 235 \/ jmp_code = 233 \/ jmp_code = 232
    IN  IF boot_sig = BOOT_SIGNATURE /\ Bytes(buf, 0, 11) = ExFatMarker THEN FsType_FAT
        ELSE IF boot_sig = BOOT_SIGNATURE /\ Bytes(buf, 3, 8) = NtfsOemName THEN FsType_NTFS
        ELSE IF valid_jump /\ boot_sig = BOOT_SIGNATURE /\ Bytes(buf, 82, 8) = Fat32FsType
        THEN FsType_FAT
        ELSE IF valid_jump /\ LegacyFatHeuristic(buf, block_length) THEN FsType_FAT
        ELSE IF boot_sig = BOOT_SIGNATURE THEN FsType_Unsupported
        ELSE FsType_Invalid

\* An inspection that classifies what the buffer holds even when the read has failed.
usbHsFsMountInspectVolumeBootRecord_IgnoresReadFailure(s, lun, block_addr) ==
    LET rd == ReadBlock(s, lun, block_addr)
    IN  Returning(rd, ClassifyVolumeBootRecord(rd.block, s.luns[lun].block_length))

usbHsFsMountInspectVolumeBootRecord(s, lun, block_addr) ==
    LET rd == ReadBlock(s, lun, block_addr)
    IN  IF ~rd.ret THEN Returning(rd, FsType_Invalid)
        ELSE Returning(rd, ClassifyVolumeBootRecord(rd.block, s.luns[lun].block_length))

----------------------------------------------------------------------------
(* usbHsFsMountInspectExtSuperBlock *)

EXT4_SUPERBLOCK_OFFSET == 1024
EXT4_SUPERBLOCK_SIZE == 1024
EXT4_SUPERBLOCK_MAGIC == 61267

\* ext4_sb_check(&superblock) of lwext4, for the superblock that starts at off of buf: the magic
\* number (at 0x38 of the superblock) decides.
ext4_sb_check(buf, off) == LE(buf, off + 56, 2) = EXT4_SUPERBLOCK_MAGIC

usbHsFsMountInspectExtSuperBlock(s, lun, block_addr) ==
    LET block_length == s.luns[lun].block_length
        block_read_addr == block_addr + (EXT4_SUPERBLOCK_OFFSET \div block_length)
        block_read_count == IF block_length >= EXT4_SUPERBLOCK_SIZE THEN 1
                            ELSE EXT4_SUPERBLOCK_SIZE \div block_length
        rd == ReadBlock(s, lun, block_read_addr)
        superblock_off == IF block_read_addr = block_addr THEN EXT4_SUPERBLOCK_OFFSET ELSE 0
        superblock == Buffer(DiskBlock(s, lun, block_read_addr), EXT4_SUPERBLOCK_SIZE, <<>>)
        found(ok) == IF ok THEN FsType_EXT ELSE FsType_Invalid
    IN  IF block_read_count = 1
        THEN (IF ~rd.ret THEN Returning(rd, FsType_Invalid)
              ELSE Returning(rd, found(ext4_sb_check(rd.block, superblock_off))))
        ELSE IF ~ReadSucceeds(s, lun, block_read_addr, block_read_count)
        THEN Returning(Logged(s, <<"read", block_read_addr, FALSE>>), FsType_Invalid)
        ELSE Returning(Logged(s, <<"read", block_read_addr, TRUE>>), found(ext4_sb_check(superblock, 0)))

----------------------------------------------------------------------------
(* Registrations during a parse. "plan" says which of the registration      *)
(* attempts of one initialization fail, and how.                             *)

PlanFaults == {"calloc_fs_ctx", "mount", "AddDevice"}

PlannedFault(plan, attempt, fs_type) ==
    IF attempt \notin plan.failing THEN "none"
    ELSE IF plan.fault # "mount" THEN plan.fault
    ELSE IF fs_type = FsType_FAT THEN "ff_mount"
    ELSE IF fs_type = FsType_NTFS THEN "ntfs_device_mount"
    ELSE "ext_mount"

\* A call of usbHsFsMountRegisterVolume by the parser.
RegisterVolumeAttempt(s, lun, block_addr, block_count, fs_type) ==
    LET attempt == s.attempts + 1
    IN  usbHsFsMountRegisterVolume([s EXCEPT !.attempts = attempt], lun, block_addr, block_count, fs_type,
                                   PlannedFault(s.plan, attempt, fs_type))

----------------------------------------------------------------------------
(* Partition tables *)

\* MasterBootRecordPartitionType
FatNtfsPartitionTypes == {1, 4, 6, 7, 11, 12, 14}
MasterBootRecordPartitionType_LinuxFileSystem == 131
ExtendedBootRecordPartitionTypes == {5, 15, 133}
MasterBootRecordPartitionType_GPT_Protective_MBR == 238

\* Fields of the MasterBootRecordPartitionEntry at off of buf.
PartitionEntryAt(buf, off) ==
    [type |-> Byte(buf, off + 4), lba |-> LE(buf, off + 8, 4), block_count |-> LE(buf, off + 12, 4)]

RECURSIVE usbHsFsMountParseMasterBootRecordPartitionEntry(_, _, _, _, _, _)

\* The most EBR sectors one walk reads before it is said to go on for ever.
MaxEbrReads == 4

\* Offsets of the members of ExtendedBootRecord, which is declared outside #pragma pack: the
\* compiler aligns "partition" to 4 bytes, and the struct is 516 bytes long.
EBR_partition == 448
EBR_next_ebr == 464
EBR_boot_sig == 512

\* The do-while loop of usbHsFsMountParseExtendedBootRecord. memcpy copies sizeof(ExtendedBootRecord)
\* bytes out of the block buffer: those past its end are the ones that follow it in memory.
RECURSIVE ExtendedBootRecordWalk(_, _, _, _, _)
ExtendedBootRecordWalk(s, lun, ebr_lba, next_ebr_lba, reads) ==
    LET rd == ReadBlock(s, lun, ebr_lba + next_ebr_lba)
        ebr == rd.block
        partition == PartitionEntryAt(ebr, EBR_partition)
        next_ebr == PartitionEntryAt(ebr, EBR_next_ebr)
        part_lba == ebr_lba + next_ebr_lba + partition.lba
        parsed == usbHsFsMountParseMasterBootRecordPartitionEntry(
                      rd, lun, partition.type, part_lba, partition.block_count, FALSE)
    IN  IF reads = MaxEbrReads THEN [s EXCEPT !.hang = TRUE]
        ELSE IF ~rd.ret THEN rd
        ELSE IF LE(ebr, EBR_boot_sig, 2) # BOOT_SIGNATURE THEN rd
        ELSE IF next_ebr.lba # 0 THEN ExtendedBootRecordWalk(parsed, lun, ebr_lba, next_ebr.lba, reads + 1)
        ELSE parsed

usbHsFsMountParseExtendedBootRecord(s, lun, ebr_lba) == ExtendedBootRecordWalk(s, lun, ebr_lba, 0, 0)

\* "EFI PART" "\x00\x00\x01\x00" "\x5C\x00\x00\x00"
GptHeaderMagic == <<69, 70, 73, 32, 80, 65, 82, 84, 0, 0, 1, 0, 92, 0, 0, 0>>

g_microsoftBasicDataPartitionGuid ==
    <<162, 160, 208, 235, 229, 185, 51, 68, 135, 192, 104, 182, 183, 38, 153, 199>>

g_linuxFilesystemDataGuid ==
    <<175, 61, 198, 15, 131, 132, 114, 71, 142, 121, 61, 105, 216, 71, 125, 228>>

\* sizeof(GuidPartitionTableEntry)
GPT_ENTRY_SIZE == 128

\* A checksum in the place of crc32Calculate: a function of the bytes lo .. hi - 1 of buf, those
\* at the offsets skip read as 0.
RECURSIVE Checksum(_, _, _, _)
Checksum(buf, skip, lo, hi) ==
    IF hi <= lo THEN 0
    ELSE IF hi = lo + 1 THEN (IF lo \in skip THEN 0 ELSE (lo + 1) * Byte(buf, lo))
    ELSE (Checksum(buf, skip, lo, (lo + hi) \div 2) + Checksum(buf, skip, (lo + hi) \div 2, hi)) % 65521

\* crc32Calculate(&gpt_header, gpt_header.header_size) with gpt_header.header_crc32 = 0
GptHeaderChecksum(hdr) == Checksum(hdr, 16 .. 19, 0, LE(hdr, 12, 4))

\* for(u32 j = 0; j < part_per_block; j++): every entry is decoded from the block buffer as it is
\* when its turn comes.
RECURSIVE GptBlockEntries(_, _, _, _)
GptBlockEntries(s, lun, part_per_block, j) ==
    LET off == j * GPT_ENTRY_SIZE
        type_guid == Bytes(s.block, off, 16)
        entry_lba == LE(s.block, off + 32, 8)
        entry_size == (LE(s.block, off + 40, 8) + 1) - entry_lba
        \* a Microsoft basic data partition may hold an EXT volume, too
        basic_data(vbr) == IF vbr.ret = FsType_Invalid
                           THEN usbHsFsMountInspectExtSuperBlock(vbr, lun, entry_lba)
                           ELSE vbr
        register(inspected) ==
            IF inspected.ret > FsType_Unsupported
            THEN RegisterVolumeAttempt(inspected, lun, entry_lba, entry_size, inspected.ret)
            ELSE inspected
        \* the entry as the loop body reads it from the block buffer
        examined == Logged(s, <<"gpt_entry", type_guid, entry_lba, entry_size>>)
    IN  IF j >= part_per_block THEN s
        ELSE IF type_guid = g_microsoftBasicDataPartitionGuid
        THEN GptBlockEntries(
                 register(basic_data(usbHsFsMountInspectVolumeBootRecord(examined, lun, entry_lba))),
                 lun, part_per_block, j + 1)
        ELSE IF type_guid = g_linuxFilesystemDataGuid
        THEN GptBlockEntries(register(usbHsFsMountInspectExtSuperBlock(examined, lun, entry_lba)),
                             lun, part_per_block, j + 1)
        ELSE GptBlockEntries(Returning(examined, FsType_Invalid), lun, part_per_block, j + 1)

\* for(u32 i = 0; i < part_array_block_count; i++)
RECURSIVE GptArrayBlocks(_, _, _, _, _, _)
GptArrayBlocks(s, lun, part_lba, part_per_block, part_array_block_count, i) ==
    LET rd == ReadBlock(s, lun, part_lba + i)
    IN  IF i >= part_array_block_count THEN s
        ELSE IF ~rd.ret THEN rd
        ELSE GptArrayBlocks(GptBlockEntries(rd, lun, part_per_block, 0), lun, part_lba,
                            part_per_block, part_array_block_count, i + 1)

\* The partition array read to the last entry the header declares, however many there are.
GptPartitionArray_NoCap(s, lun, gpt_header) ==
    LET part_per_block == s.luns[lun].block_length \div GPT_ENTRY_SIZE
    IN  IF LE(gpt_header, 84, 4) # GPT_ENTRY_SIZE THEN Logged(s, <<"gpt_entry_size", LE(gpt_header, 84, 4)>>)
        ELSE GptArrayBlocks(s, lun, LE(gpt_header, 72, 8), part_per_block,
                            LE(gpt_header, 80, 4) \div part_per_block, 0)

\* The partition array read whatever entry size the header states.
GptPartitionArray_AnyEntrySize(s, lun, gpt_header) ==
    LET count == LE(gpt_header, 80, 4)
        part_count == IF count > 128 THEN 128 ELSE count
        part_per_block == s.luns[lun].block_length \div GPT_ENTRY_SIZE
    IN  GptArrayBlocks(s, lun, LE(gpt_header, 72, 8), part_per_block, part_count \div part_per_block, 0)

\* usbHsFsMountParseGuidPartitionTable from "Verify GPT partition entry size" on, with the header in use.
GptPartitionArray(s, lun, gpt_header) ==
    LET count == LE(gpt_header, 80, 4)
        part_count == IF count > 128 THEN 128 ELSE count
        part_per_block == s.luns[lun].block_length \div GPT_ENTRY_SIZE
    IN  IF LE(gpt_header, 84, 4) # GPT_ENTRY_SIZE THEN Logged(s, <<"gpt_entry_size", LE(gpt_header, 84, 4)>>)
        ELSE GptArrayBlocks(s, lun, LE(gpt_header, 72, 8), part_per_block, part_count \div part_per_block, 0)

\* GPT parsing that gives up when the checksum of the primary header is wrong.
\* The backup header read wherever the primary header says it is.
usbHsFsMountParseGuidPartitionTable_AnyBackupLba(s, lun, gpt_lba) ==
    LET primary == ReadBlock(s, lun, gpt_lba)
        gpt_header == primary.block
        backup_header_lba == LE(gpt_header, 32, 8)
        backup == ReadBlock(primary, lun, backup_header_lba)
    IN  IF ~primary.ret THEN primary
        ELSE IF Bytes(gpt_header, 0, 16) # GptHeaderMagic THEN primary
        ELSE IF GptHeaderChecksum(gpt_header) = LE(gpt_header, 16, 4)
        THEN GptPartitionArray(primary, lun, gpt_header)
        ELSE IF ~backup.ret THEN backup
        ELSE IF GptHeaderChecksum(backup.block) # LE(backup.block, 16, 4) THEN backup
        ELSE GptPartitionArray(Logged(backup, <<"gpt_backup", backup_header_lba>>), lun, backup.block)

usbHsFsMountParseGuidPartitionTable_NoBackup(s, lun, gpt_lba) ==
    LET primary == ReadBlock(s, lun, gpt_lba)
        gpt_header == primary.block
    IN  IF ~primary.ret THEN primary
        ELSE IF Bytes(gpt_header, 0, 16) # GptHeaderMagic THEN primary
        ELSE IF GptHeaderChecksum(gpt_header) = LE(gpt_header, 16, 4)
        THEN GptPartitionArray(primary, lun, gpt_header)
        ELSE primary

usbHsFsMountParseGuidPartitionTable(s, lun, gpt_lba) ==
    LET primary == ReadBlock(s, lun, gpt_lba)
        gpt_header == primary.block
        backup_header_lba == LE(gpt_header, 32, 8)
        backup == ReadBlock(primary, lun, backup_header_lba)
    IN  IF ~primary.ret THEN primary
        ELSE IF Bytes(gpt_header, 0, 16) # GptHeaderMagic THEN primary
        ELSE IF GptHeaderChecksum(gpt_header) = LE(gpt_header, 16, 4)
        THEN GptPartitionArray(primary, lun, gpt_header)
        ELSE IF \/ backup_header_lba = 0
                \/ backup_header_lba = LE(gpt_header, 24, 8)
                \/ backup_header_lba >= s.luns[lun].block_count
        THEN primary
        ELSE IF ~backup.ret THEN backup
        ELSE IF GptHeaderChecksum(backup.block) # LE(backup.block, 16, 4) THEN backup
        ELSE GptPartitionArray(Logged(backup, <<"gpt_backup", backup_header_lba>>), lun, backup.block)

\* An entry parser that follows extended and protective entries wherever it finds them.
usbHsFsMountParseMasterBootRecordPartitionEntry_Nesting(s, lun, type, lba, size, parse_ebr_gpt) ==
    LET register(inspected) ==
            IF inspected.ret > FsType_Unsupported
            THEN RegisterVolumeAttempt(inspected, lun, lba, size, inspected.ret)
            ELSE inspected
    IN  register(IF type \in FatNtfsPartitionTypes THEN usbHsFsMountInspectVolumeBootRecord(s, lun, lba)
                 ELSE IF type = MasterBootRecordPartitionType_LinuxFileSystem
                 THEN usbHsFsMountInspectExtSuperBlock(s, lun, lba)
                 ELSE IF type \in ExtendedBootRecordPartitionTypes
                 THEN Returning(usbHsFsMountParseExtendedBootRecord(s, lun, lba), FsType_Invalid)
                 ELSE IF type = MasterBootRecordPartitionType_GPT_Protective_MBR
                 THEN Returning(usbHsFsMountParseGuidPartitionTable(s, lun, lba), FsType_Invalid)
                 ELSE Returning(s, FsType_Invalid))

usbHsFsMountParseMasterBootRecordPartitionEntry(s, lun, type, lba, size, parse_ebr_gpt) ==
    LET \* if (fs_type > UsbHsFsDriveLogicalUnitFileSystemType_Unsupported && !usbHsFsMountRegisterVolume(...))
        register(inspected) ==
            IF inspected.ret > FsType_Unsupported
            THEN RegisterVolumeAttempt(inspected, lun, lba, size, inspected.ret)
            ELSE inspected
    IN  register(IF type \in FatNtfsPartitionTypes THEN usbHsFsMountInspectVolumeBootRecord(s, lun, lba)
                 ELSE IF type = MasterBootRecordPartitionType_LinuxFileSystem
                 THEN usbHsFsMountInspectExtSuperBlock(s, lun, lba)
                 ELSE IF type \in ExtendedBootRecordPartitionTypes /\ parse_ebr_gpt
                 THEN Returning(usbHsFsMountParseExtendedBootRecord(s, lun, lba), FsType_Invalid)
                 ELSE IF type = MasterBootRecordPartitionType_GPT_Protective_MBR /\ parse_ebr_gpt
                 THEN Returning(usbHsFsMountParseGuidPartitionTable(s, lun, lba), FsType_Invalid)
                 ELSE Returning(s, FsType_Invalid))

\* for(u8 i = 0; i < MBR_PARTITION_COUNT; i++), on the copy mbr of the block; partitions start at 0x1BE.
RECURSIVE MasterBootRecordEntries(_, _, _, _)
MasterBootRecordEntries(s, lun, mbr, i) ==
    LET partition == PartitionEntryAt(mbr, 446 + 16 * i)
    IN  IF i >= MBR_PARTITION_COUNT THEN s
        ELSE MasterBootRecordEntries(
                 usbHsFsMountParseMasterBootRecordPartitionEntry(
                     s, lun, partition.type, partition.lba, partition.block_count, TRUE),
                 lun, mbr, i + 1)

\* MBR parsing that reports success whatever it registered.
usbHsFsMountParseMasterBootRecord_AlwaysTrue(s, lun) ==
    Returning(MasterBootRecordEntries(s, lun, s.block, 0), TRUE)

usbHsFsMountParseMasterBootRecord(s, lun) ==
    LET \* ret = (lun_ctx->fs_count > 0);
        result(parsed) == Returning(parsed, Len(parsed.luns[lun].fs_ctx) > 0)
    IN  result(MasterBootRecordEntries(s, lun, s.block, 0))

\* An initialization that goes on to the partition table after it has registered the volume at LBA 0.
usbHsFsMountInitializeLogicalUnitFileSystemContexts_ParsesAfterSfd(s, lun, malloc_fails) ==
    LET lun_ctx == s.luns[lun]
        allocated == [s EXCEPT !.block = Buffer(<<>>, lun_ctx.block_length, s.disk[lun].tail)]
        vbr == usbHsFsMountInspectVolumeBootRecord(allocated, lun, 0)
        ext == usbHsFsMountInspectExtSuperBlock(vbr, lun, 0)
    IN  IF malloc_fails THEN Returning(s, FALSE)
        ELSE IF vbr.ret > FsType_Unsupported
        THEN usbHsFsMountParseMasterBootRecord(
                 RegisterVolumeAttempt(vbr, lun, 0, lun_ctx.block_count, vbr.ret), lun)
        ELSE IF vbr.ret = FsType_Unsupported THEN usbHsFsMountParseMasterBootRecord(vbr, lun)
        ELSE IF ext.ret = FsType_EXT
        THEN RegisterVolumeAttempt(ext, lun, 0, lun_ctx.block_count, ext.ret)
        ELSE Returning(ext, FALSE)

\* usbHsFsMountInitializeLogicalUnitFileSystemContexts (GPL_BUILD); malloc_fails: malloc of the block returns NULL
usbHsFsMountInitializeLogicalUnitFileSystemContexts(s, lun, malloc_fails) ==
    LET lun_ctx == s.luns[lun]
        allocated == [s EXCEPT !.block = Buffer(<<>>, lun_ctx.block_length, s.disk[lun].tail)]
        vbr == usbHsFsMountInspectVolumeBootRecord(allocated, lun, 0)
        ext == usbHsFsMountInspectExtSuperBlock(vbr, lun, 0)
    IN  IF malloc_fails THEN Returning(s, FALSE)
        ELSE IF vbr.ret > FsType_Unsupported
        THEN RegisterVolumeAttempt(vbr, lun, 0, lun_ctx.block_count, vbr.ret)
        ELSE IF vbr.ret = FsType_Unsupported THEN usbHsFsMountParseMasterBootRecord(vbr, lun)
        ELSE IF ext.ret = FsType_EXT
        THEN RegisterVolumeAttempt(ext, lun, 0, lun_ctx.block_count, ext.ret)
        ELSE Returning(ext, FALSE)

----------------------------------------------------------------------------
(* Disk images. A disk is [blocks, bad, tail, block_length, kind, parts,     *)
(* opts]:                                                                    *)
(* its written blocks, the LBAs that cannot be read, the bytes that follow  *)
(* the block buffer in memory, and how the image was laid out.              *)

BytesAt(off, seq) == [i \in off .. (off + Len(seq) - 1) |-> seq[i - off + 1]]

RECURSIVE LEBytes(_, _)
LEBytes(v, n) == IF n = 0 THEN <<>> ELSE <<v % 256>> \o LEBytes(v \div 256, n - 1)

\* boot_sig of a VBR, MBR or EBR sector: BOOT_SIGNATURE at 0x1FE
BootSignatureBytes == BytesAt(510, LEBytes(BOOT_SIGNATURE, 2))

\* The first block of a volume of each kind that has one.
VolumeBootRecordBlock(kind) ==
    IF kind = "fat32" THEN BytesAt(0, <<235, 88, 144>>) @@ BytesAt(82, Fat32FsType) @@ BootSignatureBytes
    ELSE IF kind = "ntfs" THEN BytesAt(0, <<235, 82, 144>>) @@ BytesAt(3, NtfsOemName) @@ BootSignatureBytes
    ELSE IF kind = "exfat" THEN BytesAt(0, ExFatMarker) @@ BootSignatureBytes
    ELSE \* "fat16": a volume formatted by an old tool, without signature and type string
         BytesAt(0, <<235, 60, 144>>) @@ BytesAt(11, LEBytes(512, 2)) @@ BytesAt(13, <<4>>)
         @@ BytesAt(14, LEBytes(1, 2)) @@ BytesAt(16, <<2>>) @@ BytesAt(17, LEBytes(512, 2))
         @@ BytesAt(19, LEBytes(2048, 2)) @@ BytesAt(22, LEBytes(8, 2))

\* The blocks of a volume of the given kind that starts at lba ("none": nothing was written there).
VolumeImage(kind, lba, block_length) ==
    IF kind = "none" THEN <<>>
    ELSE IF kind = "ext"
    THEN (lba + (EXT4_SUPERBLOCK_OFFSET \div block_length)) :>
             BytesAt((EXT4_SUPERBLOCK_OFFSET % block_length) + 56, LEBytes(EXT4_SUPERBLOCK_MAGIC, 2))
    ELSE lba :> VolumeBootRecordBlock(kind)

\* The filesystem type the driver gives a volume of each kind.
FsTypeOf(kind) ==
    IF kind \in {"fat32", "exfat", "fat16"} THEN FsType_FAT
    ELSE IF kind = "ntfs" THEN FsType_NTFS
    ELSE IF kind = "ext" THEN FsType_EXT
    ELSE FsType_Invalid

\* The MBR partition type a partitioning tool gives a volume of each kind.
PartitionTypeOf(kind) ==
    IF kind = "ntfs" THEN 7
    ELSE IF kind = "ext" THEN MasterBootRecordPartitionType_LinuxFileSystem
    ELSE 12

\* A MasterBootRecordPartitionEntry written at off.
PartitionEntryBytes(off, type, lba, block_count) ==
    BytesAt(off + 4, <<type>>) @@ BytesAt(off + 8, LEBytes(lba, 4)) @@ BytesAt(off + 12, LEBytes(block_count, 4))

RECURSIVE Merged(_)
Merged(fs) == IF fs = <<>> THEN <<>> ELSE Head(fs) @@ Merged(Tail(fs))

\* Sequences over K of length lo .. hi
SeqsOf(K, lo, hi) == UNION {[1 .. n -> K] : n \in lo .. hi}

\* The blocks a partition is apart, and the blocks one has.
PartitionStride == 8

BlockCount == 64

Disk(block_length, blocks, tail, kind, parts, opts) ==
    [blocks |-> blocks, bad |-> {}, tail |-> tail, block_length |-> block_length,
     kind |-> kind, parts |-> parts, opts |-> opts]

\* Bytes found after the block buffer: zeroes, or two bytes that read as BOOT_SIGNATURE.
Tails == {<<>>, 0 :> 85 @@ 1 :> 170}

\* A volume (or nothing at all) at LBA 0.
SfdDisks ==
    {Disk(bl, VolumeImage(kind, 0, bl), <<>>, "sfd", <<kind>>, <<>>) :
        bl \in {512, 4096}, kind \in {"fat32", "ntfs", "exfat", "fat16", "ext", "none"}}

\* An MBR whose entries first_slot, first_slot + 1, ... hold the partitions parts, the i-th of them
\* at LBA PartitionStride * (i + skip).
MbrDisk(block_length, parts, first_slot, skip) ==
    Disk(block_length,
         (0 :> (Merged([i \in 1 .. Len(parts) |->
                           PartitionEntryBytes(446 + 16 * (first_slot + i - 2), PartitionTypeOf(parts[i]),
                                               PartitionStride * (i + skip), PartitionStride)])
                @@ BootSignatureBytes))
         @@ Merged([i \in 1 .. Len(parts) |->
                       VolumeImage(parts[i], PartitionStride * (i + skip), block_length)]),
         <<>>, "mbr", parts, [first_slot |-> first_slot, skip |-> skip])

MbrDisks ==
    {MbrDisk(512, parts, 1, 0) : parts \in SeqsOf({"fat32", "ntfs", "ext", "none"}, 0, MaxVolumes)}
    \cup {MbrDisk(bl, <<kind>>, slot, skip) :
             bl \in {512, 4096}, kind \in {"fat32", "ext"}, slot \in 1 .. MBR_PARTITION_COUNT, skip \in {0, 1}}

\* An EBR sector as partitioning tools write it: the partition entry at 0x1BE, the link to the
\* next EBR at 0x1CE, the signature at 0x1FE.
EbrBlock(type, lba, block_count, next_lba) ==
    PartitionEntryBytes(446, type, lba, block_count)
    @@ (IF next_lba = 0 THEN <<>> ELSE PartitionEntryBytes(462, 5, next_lba, PartitionStride))
    @@ BootSignatureBytes

\* An MBR with one extended partition at LBA PartitionStride that holds the chain of the logical
\* partitions parts: the i-th EBR is at LBA PartitionStride * i, its partition one block after it.
EbrDisk(block_length, tail, parts) ==
    LET N == Len(parts)
    IN  Disk(block_length,
             (0 :> (PartitionEntryBytes(446, 15, PartitionStride, PartitionStride * N) @@ BootSignatureBytes))
             @@ Merged([i \in 1 .. N |->
                           (PartitionStride * i) :>
                               EbrBlock(PartitionTypeOf(parts[i]), 1, PartitionStride - 1,
                                        IF i < N THEN PartitionStride * i ELSE 0)])
             @@ Merged([i \in 1 .. N |-> VolumeImage(parts[i], PartitionStride * i + 1, block_length)]),
             tail, "ebr", parts, <<>>)

EbrDisks ==
    {EbrDisk(bl, tail, parts) :
        bl \in {512, 4096}, tail \in Tails, parts \in SeqsOf({"fat32", "ntfs"}, 1, MaxEbrReads - 1)}

\* A GuidPartitionTableEntry written as the j-th of its block.
GptEntryBytes(j, type_guid, lba_start, lba_end) ==
    BytesAt(GPT_ENTRY_SIZE * j, type_guid)
    @@ BytesAt(GPT_ENTRY_SIZE * j + 32, LEBytes(lba_start, 8))
    @@ BytesAt(GPT_ENTRY_SIZE * j + 40, LEBytes(lba_end, 8))

\* A GuidPartitionTableHeader; crc_delta is what its header_crc32 is off by.
GptHeaderBlock(cur_header_lba, backup_header_lba, partition_array_lba, count, entry_size, crc_delta) ==
    LET body == BytesAt(0, GptHeaderMagic)
                @@ BytesAt(24, LEBytes(cur_header_lba, 8)) @@ BytesAt(32, LEBytes(backup_header_lba, 8))
                @@ BytesAt(72, LEBytes(partition_array_lba, 8))
                @@ BytesAt(80, LEBytes(count, 4)) @@ BytesAt(84, LEBytes(entry_size, 4))
    IN  body @@ BytesAt(16, LEBytes(GptHeaderChecksum(Buffer(body, 512, <<>>)) + crc_delta, 4))

\* What type GUID a partitioning tool gives a volume of each kind.
TypeGuidOf(kind) == IF kind = "ext" THEN g_linuxFilesystemDataGuid ELSE g_microsoftBasicDataPartitionGuid

\* A GPT disk of 512-byte blocks: protective MBR, primary header at LBA 1 and array at LBA 2,
\* backup array and header in the last blocks. The i-th partition is entry slots[i] of the array,
\* at LBA PartitionStride * i. opts: crc_delta (of the primary header), backup ("valid", "bad_crc"
\* or "none") and entry_size (of both headers).
GptDisk(parts, slots, opts) ==
    LET per_block == 512 \div GPT_ENTRY_SIZE
        array_blocks == 2
        backup_lba == BlockCount - 1
        array(b) == Merged([i \in 1 .. Len(parts) |->
                        IF slots[i] \div per_block = b
                        THEN GptEntryBytes(slots[i] % per_block, TypeGuidOf(parts[i]),
                                           PartitionStride * i, PartitionStride * (i + 1) - 1)
                        ELSE <<>>])
        header(cur, other, array_lba, delta) ==
            GptHeaderBlock(cur, other, array_lba, array_blocks * per_block, opts.entry_size, delta)
    IN  Disk(512,
             (0 :> (PartitionEntryBytes(446, MasterBootRecordPartitionType_GPT_Protective_MBR, 1, BlockCount - 1)
                    @@ BootSignatureBytes))
             @@ (1 :> header(1, IF opts.backup = "none" THEN 0 ELSE backup_lba, 2, opts.crc_delta))
             @@ Merged([b \in 1 .. array_blocks |-> (1 + b) :> array(b - 1)])
             @@ Merged([b \in 1 .. array_blocks |-> (backup_lba - array_blocks - 1 + b) :> array(b - 1)])
             @@ (IF opts.backup = "none" THEN <<>>
                 ELSE backup_lba :> header(backup_lba, 1, backup_lba - array_blocks,
                                           IF opts.backup = "bad_crc" THEN 1 ELSE 0))
             @@ Merged([i \in 1 .. Len(parts) |-> VolumeImage(parts[i], PartitionStride * i, 512)]),
             <<>>, "gpt", parts, opts)

GptOptions == [crc_delta : {0, 1}, backup : {"valid", "bad_crc", "none"}, entry_size : {GPT_ENTRY_SIZE, 64}]

GptDisks ==
    {GptDisk(parts, [i \in 1 .. Len(parts) |-> i - 1], opts) :
        parts \in SeqsOf({"fat32", "ntfs", "ext"}, 0, 2), opts \in GptOptions}
    \cup {GptDisk(parts, [i \in 1 .. Len(parts) |-> 4 * (i - 1)], opts) :
             parts \in SeqsOf({"fat32", "ntfs", "ext"}, 2, 2), opts \in GptOptions}

\* A GPT disk whose header declares count entries: protective MBR, header at LBA 1 without a
\* backup, array from LBA 2 on. The i-th partition is entry slots[i] of the array and lies at
\* LBA PartitionStride * (i + 4), behind the longest array.
GptCountDisk(block_length, count, parts, slots) ==
    LET per_block == block_length \div GPT_ENTRY_SIZE
        lba(i) == PartitionStride * (i + 4)
    IN  Disk(block_length,
             (0 :> (PartitionEntryBytes(446, MasterBootRecordPartitionType_GPT_Protective_MBR, 1, BlockCount - 1)
                    @@ BootSignatureBytes))
             @@ (1 :> GptHeaderBlock(1, 0, 2, count, GPT_ENTRY_SIZE, 0))
             @@ Merged([i \in 1 .. Len(parts) |->
                           (2 + (slots[i] \div per_block)) :>
                               GptEntryBytes(slots[i] % per_block, TypeGuidOf(parts[i]), lba(i),
                                             lba(i) + PartitionStride - 1)])
             @@ Merged([i \in 1 .. Len(parts) |-> VolumeImage(parts[i], lba(i), block_length)]),
             <<>>, "gpt", parts, [crc_delta |-> 0, backup |-> "none", entry_size |-> GPT_ENTRY_SIZE])

\* Entry counts around the multiples of the entries per block and around the limit of 128, with
\* one volume in the first or in the last entry declared, or in the entries 127 and 128.
GptEntryCounts == {1, 3, 4, 5, 33, 127, 128, 129, 160}

GptCountDisks ==
    UNION {{GptCountDisk(bl, count, <<kind>>, <<slot>>) :
               bl \in {512, 4096}, kind \in {"fat32", "ext"},
               slot \in {c \in {0, count - 1, 127, 128} : c < count}} : count \in GptEntryCounts}

\* A GPT disk of 512-byte blocks whose primary header, at LBA 1, has a wrong CRC32 and states
\* cur_header_lba and backup_header_lba as given. The last block holds a header with a right
\* CRC32 whose signature or revision is as the option backup says ("valid", "wrong_signature",
\* "wrong_revision"). Both headers point at the array at LBA 2, whose entry 0 is a FAT32 volume.
GptBackupDisk(cur_header_lba, backup_header_lba, backup) ==
    LET lba == PartitionStride
        last_lba == BlockCount - 1
        body == (IF backup = "wrong_signature" THEN 0 :> 70
                 ELSE IF backup = "wrong_revision" THEN 10 :> 2 ELSE <<>>)
                @@ GptHeaderBlock(last_lba, 1, 2, 4, GPT_ENTRY_SIZE, 0)
    IN  Disk(512,
             (0 :> (PartitionEntryBytes(446, MasterBootRecordPartitionType_GPT_Protective_MBR, 1, BlockCount - 1)
                    @@ BootSignatureBytes))
             @@ (1 :> GptHeaderBlock(cur_header_lba, backup_header_lba, 2, 4, GPT_ENTRY_SIZE, 1))
             @@ (2 :> GptEntryBytes(0, TypeGuidOf("fat32"), lba, lba + PartitionStride - 1))
             @@ (last_lba :> (BytesAt(16, LEBytes(GptHeaderChecksum(Buffer(body, 512, <<>>)), 4)) @@ body))
             @@ VolumeImage("fat32", lba, 512),
             <<>>, "gpt", <<"fat32">>,
             [crc_delta |-> 1, entry_size |-> GPT_ENTRY_SIZE,
              backup |-> IF backup = "valid" /\ backup_header_lba = last_lba /\ cur_header_lba # last_lba
                         THEN "valid" ELSE "unusable"])

GptBackupDisks ==
    {GptBackupDisk(cur, backup_lba, backup) :
        cur \in {1, 5, BlockCount - 1},
        backup_lba \in {0, 1, 5, BlockCount - 1, BlockCount, BlockCount + 1},
        backup \in {"valid", "wrong_signature", "wrong_revision"}}

\* An EBR sector laid out as the built code reads it: the members at the offsets of the
\* ExtendedBootRecord struct.
EbrStructBlock(type, lba, block_count, next_lba) ==
    PartitionEntryBytes(EBR_partition, type, lba, block_count)
    @@ (IF next_lba = 0 THEN <<>> ELSE PartitionEntryBytes(EBR_next_ebr, 5, next_lba, PartitionStride))
    @@ BytesAt(EBR_boot_sig, LEBytes(BOOT_SIGNATURE, 2))

\* A disk of 4096-byte blocks whose MBR has one extended partition at LBA PartitionStride. The
\* first EBR of its chain holds no partition and points at a second EBR, two blocks further,
\* whose partition (a volume of the given kind, or none) lies one block after it and whose
\* next_ebr points at next_lba: at the second EBR itself when next_lba is 2.
EbrCycleDisk(kind, next_lba) ==
    Disk(4096,
         (0 :> (PartitionEntryBytes(446, 15, PartitionStride, PartitionStride) @@ BootSignatureBytes))
         @@ (PartitionStride :> EbrStructBlock(0, 0, 0, 2))
         @@ ((PartitionStride + 2) :>
                EbrStructBlock(IF kind = "none" THEN 0 ELSE PartitionTypeOf(kind), 1, PartitionStride - 3, next_lba))
         @@ VolumeImage(kind, PartitionStride + 3, 4096),
         <<>>, "ebr_struct", <<kind>>, [next_lba |-> next_lba])

EbrCycleDisks == {EbrCycleDisk(kind, next_lba) : kind \in {"none", "fat32", "ntfs"}, next_lba \in {0, 2}}

\* A disk of 4096-byte blocks whose MBR has one extended partition at LBA PartitionStride. The
\* one EBR of its chain holds a partition entry of the given type at the next block, where a
\* partition table of that type begins: a GPT header (type 0xEE) or else an EBR. That inner
\* table holds a FAT32 volume, two blocks further.
EbrNestedDisk(type) ==
    LET inner == PartitionStride + 1
    IN  Disk(4096,
             (0 :> (PartitionEntryBytes(446, 15, PartitionStride, PartitionStride) @@ BootSignatureBytes))
             @@ (PartitionStride :> EbrStructBlock(type, 1, PartitionStride - 1, 0))
             @@ (inner :> (IF type = MasterBootRecordPartitionType_GPT_Protective_MBR
                           THEN GptHeaderBlock(inner, 0, inner + 1, 4096 \div GPT_ENTRY_SIZE, GPT_ENTRY_SIZE, 0)
                           ELSE EbrStructBlock(PartitionTypeOf("fat32"), 2, PartitionStride - 3, 0)))
             @@ (IF type = MasterBootRecordPartitionType_GPT_Protective_MBR
                 THEN (inner + 1) :> GptEntryBytes(0, TypeGuidOf("fat32"), inner + 2, 2 * PartitionStride - 1)
                 ELSE <<>>)
             @@ VolumeImage("fat32", inner + 2, 4096),
             <<>>, "ebr_nested", <<"fat32">>, [type |-> type])

EbrNestedDisks ==
    {EbrNestedDisk(type) :
        type \in ExtendedBootRecordPartitionTypes \cup {MasterBootRecordPartitionType_GPT_Protective_MBR}}

\* A disk of 4096-byte blocks with three MBR entries and the blocks bad unreadable. Entry 1 is
\* a FAT32 volume at LBA PartitionStride and entry 3 a FAT32 volume at 5 * PartitionStride.
\* Entry 2, at base = 2 * PartitionStride, is as table says: "mbr", an NTFS volume at base;
\* "ebr", an extended partition whose first EBR, at base, holds an NTFS volume at base + 1 and
\* points at a second EBR, at base + 2, that holds nothing; "gpt", a GPT whose header is at
\* base and whose array, at base + 1, has one entry, an NTFS volume at base + 2.
ReadFailureDisk(table, bad) ==
    LET base == 2 * PartitionStride
        third == 5 * PartitionStride
        ntfs_lba == IF table = "mbr" THEN base ELSE IF table = "ebr" THEN base + 1 ELSE base + 2
        type == IF table = "mbr" THEN PartitionTypeOf("ntfs")
                ELSE IF table = "ebr" THEN 15
                ELSE MasterBootRecordPartitionType_GPT_Protective_MBR
        inner == IF table = "ebr"
                 THEN (base :> EbrStructBlock(PartitionTypeOf("ntfs"), 1, 1, 2))
                      @@ ((base + 2) :> EbrStructBlock(0, 0, 0, 0))
                 ELSE IF table = "gpt"
                 THEN (base :> GptHeaderBlock(base, 0, base + 1, 4096 \div GPT_ENTRY_SIZE, GPT_ENTRY_SIZE, 0))
                      @@ ((base + 1) :> GptEntryBytes(0, TypeGuidOf("ntfs"), base + 2, base + PartitionStride - 1))
                 ELSE <<>>
    IN  [Disk(4096,
              (0 :> (PartitionEntryBytes(446, PartitionTypeOf("fat32"), PartitionStride, PartitionStride)
                     @@ PartitionEntryBytes(462, type, base, PartitionStride)
                     @@ PartitionEntryBytes(478, PartitionTypeOf("fat32"), third, PartitionStride)
                     @@ BootSignatureBytes))
              @@ inner
              @@ VolumeImage("fat32", PartitionStride, 4096)
              @@ VolumeImage("ntfs", ntfs_lba, 4096)
              @@ VolumeImage("fat32", third, 4096),
              <<>>, "read_failure", <<"fat32", "ntfs", "fat32">>, [table |-> table, ntfs_lba |-> ntfs_lba])
         EXCEPT !.bad = bad]

ReadFailureDisks ==
    {ReadFailureDisk(table, bad) :
        table \in {"mbr", "ebr", "gpt"},
        bad \in {{}} \cup {{lba} : lba \in {PartitionStride, 5 * PartitionStride}
                                       \cup (2 * PartitionStride) .. (2 * PartitionStride + 2)}}

\* A volume at LBA 0 whose first block also holds, where an MBR has its first partition entry,
\* an entry for an NTFS volume that lies at LBA PartitionStride.
SfdHybridDisks ==
    {Disk(bl,
          (0 :> (VolumeBootRecordBlock(kind)
                 @@ PartitionEntryBytes(446, PartitionTypeOf("ntfs"), PartitionStride, PartitionStride)))
          @@ VolumeImage("ntfs", PartitionStride, bl),
          <<>>, "sfd_hybrid", <<kind>>, <<>>) :
        bl \in {512, 4096}, kind \in {"fat32", "ntfs", "exfat", "fat16"}}

Disks ==
    SfdDisks \cup MbrDisks \cup EbrDisks \cup GptDisks \cup GptCountDisks \cup GptBackupDisks
    \cup EbrCycleDisks \cup EbrNestedDisks \cup ReadFailureDisks \cup SfdHybridDisks

----------------------------------------------------------------------------
(* The registry specification: registrations, destructions, default-device *)
(* changes, in any order, on two logical units.                             *)

EmptyDisk == [blocks |-> <<>>, bad |-> {}, tail |-> <<>>]

FreshLun(block_length, block_count, write_protect) ==
    [block_length |-> block_length, block_count |-> block_count,
     write_protect |-> write_protect, fs_ctx |-> <<>>]

\* What an operation's record keeps of the state it started in.
Snapshot(lun) ==
    [ids |-> g_devoptabDeviceIds, fs_count |-> Len(luns[lun].fs_ctx),
     default_id |-> g_devoptabDefaultDeviceId, default_devoptab |-> devoptab_list[defaultDevice],
     fat |-> g_fatFsVolumeTable]

NoOperation ==
    [op |-> "none", p |-> <<>>, fs_type |-> FsType_Invalid, block_addr |-> 0,
     fault |-> "none", ret |-> FALSE, log |-> <<>>, pre |-> <<>>, reg_pre |-> <<>>,
     plan |-> <<>>, hang |-> FALSE]

\* The threads that call into the module.
NumThreads == 2

Threads == 1 .. NumThreads

NoThread == 0

IdleThread == [pc |-> "idle", op |-> "none", p |-> <<>>]

\* No call is in progress: the mutex is free. The operations of the specifications that run one
\* call at a time take the mutex and release it within one step.
NoCallInProgress ==
    /\ g_devoptabDefaultDeviceMutex = NoThread
    /\ threads = [t \in Threads |-> IdleThread]

\* The globals of the module but the device-ID table, and the device table of the C library.
InitTables ==
    /\ g_devoptabDefaultDeviceId = DEVOPTAB_INVALID_ID
    /\ g_fatFsVolumeTable = [pdrv \in 0 .. (FF_VOLUMES - 1) |-> FALSE]
    /\ g_fileSystemMountFlags = UsbHsFsMountFlags_Default
    /\ devoptab_list = [i \in DevSlots |-> IF i = 1 THEN dotab_sdmc ELSE dotab_stdnull]
    /\ defaultDevice = 1
    /\ driverMounts = {}
    /\ NoCallInProgress
    /\ last = NoOperation

InitGlobals ==
    /\ g_devoptabDeviceIds = <<>>
    /\ InitTables

Init ==
    /\ InitGlobals
    /\ luns = [l \in LunIds |-> FreshLun(512, 64, l = 1)]
    /\ disk = [l \in LunIds |-> EmptyDisk]

\* The program state after an operation returned s.
Becomes(s) ==
    /\ luns' = s.luns
    /\ g_devoptabDeviceIds' = s.g_devoptabDeviceIds
    /\ g_devoptabDefaultDeviceId' = s.g_devoptabDefaultDeviceId
    /\ g_fatFsVolumeTable' = s.g_fatFsVolumeTable
    /\ g_fileSystemMountFlags' = s.g_fileSystemMountFlags
    /\ devoptab_list' = s.devoptab_list
    /\ defaultDevice' = s.defaultDevice
    /\ driverMounts' = s.driverMounts

Contexts == {p \in LunIds \X (1 .. MaxVolumes) : p[2] <= Len(luns[p[1]].fs_ctx)}

IsLive(p) == usbHsFsDriveIsValidLogicalUnitFileSystemContext(luns[p[1]].fs_ctx[p[2]])

LiveContexts == {p \in Contexts : IsLive(p)}

\* One volume registration during the initialization of a logical unit none of whose volumes was destroyed yet.
RegisterVolume(lun, fs_type, block_addr, fault) ==
    /\ Cardinality(Contexts) < MaxVolumes
    /\ \A i \in 1 .. Len(luns[lun].fs_ctx) : IsLive(<<lun, i>>)
    /\ \E s \in {usbHsFsMountRegisterVolume(State, lun, block_addr, luns[lun].block_count - block_addr,
                                           fs_type, fault)} :
           /\ Becomes(s)
           /\ last' = [NoOperation EXCEPT !.op = "RegisterVolume",
                                          !.p = <<lun, Len(luns[lun].fs_ctx) + 1>>,
                                          !.fs_type = fs_type, !.block_addr = block_addr,
                                          !.fault = fault, !.ret = s.ret, !.log = s.log,
                                          !.pre = <<Snapshot(lun)>>]
    /\ UNCHANGED <<disk, g_devoptabDefaultDeviceMutex, threads>>

DestroyFilesystemContext(p) ==
    /\ \E s \in {usbHsFsMountDestroyLogicalUnitFileSystemContext(State, p)} :
           /\ Becomes(s)
           /\ last' = [NoOperation EXCEPT !.op = "Destroy", !.p = p,
                                          !.fs_type = FsCtx(State, p).fs_type,
                                          !.log = s.log, !.pre = <<Snapshot(p[1])>>,
                                          !.reg_pre = IF last.op = "RegisterVolume" /\ last.ret /\ last.p = p
                                                      THEN last.pre ELSE <<>>]
    /\ UNCHANGED <<disk, g_devoptabDefaultDeviceMutex, threads>>

SetDefaultDevice(p) ==
    /\ \E s \in {usbHsFsMountSetDefaultDevoptabDevice(State, p)} :
           /\ Becomes(s)
           /\ last' = [NoOperation EXCEPT !.op = "SetDefaultDevice", !.p = p,
                                          !.ret = s.ret, !.log = s.log, !.pre = <<Snapshot(p[1])>>]
    /\ UNCHANGED <<disk, g_devoptabDefaultDeviceMutex, threads>>

Next ==
    \/ \E lun \in LunIds, fs_type \in MountableFsTypes :
           \E fault \in FaultsFor(fs_type) :
               RegisterVolume(lun, fs_type, 8 * (Len(luns[lun].fs_ctx) + 1), fault)
    \/ \E p \in Contexts : DestroyFilesystemContext(p)
    \/ \E p \in Contexts : SetDefaultDevice(p)

Spec == Init /\ [][Next]_vars

----------------------------------------------------------------------------
(* The parsing specification: one logical unit whose disk is any of Disks   *)
(* is initialized once, with any plan of registration failures.             *)

\* Where the driver of a registered volume was told the volume starts.
VolumeAddress(fs_ctx) ==
    IF fs_ctx.fs_type = FsType_FAT THEN fs_ctx.fatfs[1].winsect
    ELSE IF fs_ctx.fs_type = FsType_NTFS THEN fs_ctx.ntfs[1].sector_start
    ELSE fs_ctx.ext[1].part_offset

\* The registered volumes of a logical unit, in the order of lun_ctx->fs_ctx: type and first LBA.
Volumes(lun_ctx) ==
    [i \in 1 .. Len(lun_ctx.fs_ctx) |-> <<lun_ctx.fs_ctx[i].fs_type, VolumeAddress(lun_ctx.fs_ctx[i])>>]

NoPlan == [failing |-> {}, fault |-> "none"]

Plans ==
    {NoPlan} \cup {[failing |-> f, fault |-> k] : f \in (SUBSET (1 .. MaxVolumes)) \ {{}}, k \in PlanFaults}

InitParse ==
    /\ InitGlobals
    /\ \E d \in Disks :
           /\ disk = [l \in LunIds |-> IF l = 0 THEN d ELSE EmptyDisk]
           /\ luns = [l \in LunIds |-> FreshLun(IF l = 0 THEN d.block_length ELSE 512, BlockCount, FALSE)]

\* The disk d with the header_crc32 of the GPT header at LBA 1 set to the checksum of that header.
WithPrimaryHeaderCrc(d) ==
    IF 1 \notin DOMAIN d.blocks THEN d
    ELSE [d EXCEPT !.blocks[1] = BytesAt(16, LEBytes(GptHeaderChecksum(Buffer(@, 512, <<>>)), 4)) @@ @]

\* usbHsFsMountInitializeLogicalUnitFileSystemContexts on a logical unit that was just started.
InitializeLogicalUnit(lun, plan, malloc_fails) ==
    /\ last.op = "none"
    /\ luns[lun].fs_ctx = <<>>
    /\ disk[lun] # EmptyDisk
    /\ malloc_fails => plan = NoPlan
    /\ \E s \in {usbHsFsMountInitializeLogicalUnitFileSystemContexts([State EXCEPT !.plan = plan], lun, malloc_fails)},
          \* the same call, had the primary GPT header of the disk the checksum it should have
          repaired \in {usbHsFsMountInitializeLogicalUnitFileSystemContexts(
                           [State EXCEPT !.plan = plan, !.disk[lun] = WithPrimaryHeaderCrc(@)], lun, malloc_fails)} :
           /\ Becomes(s)
           /\ last' = [NoOperation EXCEPT !.op = "Initialize", !.p = <<lun>>, !.ret = s.ret,
                                          !.log = s.log, !.plan = plan, !.hang = s.hang,
                                          !.fault = IF malloc_fails THEN "malloc" ELSE "none",
                                          !.pre = <<[volumes |-> Volumes(repaired.luns[lun]),
                                                     ret |-> repaired.ret]>>]
    /\ UNCHANGED <<disk, g_devoptabDefaultDeviceMutex, threads>>

NextParse == \E lun \in LunIds, plan \in Plans, malloc_fails \in BOOLEAN : InitializeLogicalUnit(lun, plan, malloc_fails)

SpecParse == InitParse /\ [][NextParse]_vars

----------------------------------------------------------------------------
(* The allocator specification: usbHsFsMountGetAvailableDevoptabDeviceId    *)
(* reads nothing but g_devoptabDeviceIds. The table starts as any list of   *)
(* distinct IDs (registrations and destructions leave every such list) and  *)
(* the allocator is called on it.                                           *)

MaxDeviceId == 3

Range(seq) == {seq[i] : i \in 1 .. Len(seq)}

NoDuplicates(seq) == \A i, j \in 1 .. Len(seq) : i # j => seq[i] # seq[j]

IdLists == {ids \in SeqsOf(0 .. MaxDeviceId, 0, MaxDeviceId + 1) : NoDuplicates(ids)}

InitIds ==
    /\ g_devoptabDeviceIds \in IdLists
    /\ InitTables
    /\ luns = [l \in LunIds |-> FreshLun(512, BlockCount, FALSE)]
    /\ disk = [l \in LunIds |-> EmptyDisk]

AllocateDeviceId ==
    /\ last.op = "none"
    /\ last' = [NoOperation EXCEPT !.op = "AllocateDeviceId",
                                   !.ret = usbHsFsMountGetAvailableDevoptabDeviceId(g_devoptabDeviceIds)]
    /\ UNCHANGED <<luns, g_devoptabDeviceIds, g_devoptabDefaultDeviceId, g_fatFsVolumeTable,
                   g_fileSystemMountFlags, devoptab_list, defaultDevice, driverMounts, disk,
                   g_devoptabDefaultDeviceMutex, threads>>

NextIds == AllocateDeviceId

SpecIds == InitIds /\ [][NextIds]_vars

----------------------------------------------------------------------------
(* The boot record specification: usbHsFsMountInspectVolumeBootRecord is    *)
(* called on the first block of a disk, which is any mix of the marks the   *)
(* function looks for.                                                      *)

\* The BIOS parameter block of a boot record: the fields of the legacy FAT test. "legacy" is what
\* an old formatting tool writes; the others differ from it in one field.
BpbBytes(bpb) ==
    IF bpb = "zero" THEN <<>>
    ELSE BytesAt(11, LEBytes(IF bpb = "zero_sector_size" THEN 0 ELSE 512, 2)) @@ BytesAt(13, <<4>>)
         @@ BytesAt(14, LEBytes(1, 2)) @@ BytesAt(16, <<IF bpb = "no_fats" THEN 0 ELSE 2>>)
         @@ BytesAt(17, LEBytes(512, 2))
         @@ BytesAt(19, LEBytes(IF bpb = "few_sectors" THEN 100 ELSE 2048, 2)) @@ BytesAt(22, LEBytes(8, 2))

BootRecordOptions ==
    [jmp : {0, 235, 233, 232}, oem : {"none", "exfat", "ntfs"}, label : {"none", "fat32"},
     bpb : {"zero", "legacy", "zero_sector_size", "no_fats", "few_sectors"}, sig : BOOLEAN]

\* The block the options describe; the jump code is written last, over the first byte of an exFAT mark.
BootRecordBlock(o) ==
    BytesAt(0, <<o.jmp>>)
    @@ (IF o.oem = "exfat" THEN BytesAt(0, ExFatMarker)
        ELSE IF o.oem = "ntfs" THEN BytesAt(3, NtfsOemName) ELSE <<>>)
    @@ (IF o.label = "fat32" THEN BytesAt(82, Fat32FsType) ELSE <<>>)
    @@ BpbBytes(o.bpb)
    @@ (IF o.sig THEN BootSignatureBytes ELSE <<>>)

\* One-block disks, with the block readable or not.
BootRecordDisks ==
    {[Disk(bl, 0 :> BootRecordBlock(o), <<>>, "vbr", <<>>, o) EXCEPT !.bad = bad] :
        bl \in {512, 4096}, o \in BootRecordOptions, bad \in {{}, {0}}}

InitVbr ==
    /\ InitGlobals
    /\ \E d \in BootRecordDisks :
           /\ disk = [l \in LunIds |-> IF l = 0 THEN d ELSE EmptyDisk]
           /\ luns = [l \in LunIds |-> FreshLun(IF l = 0 THEN d.block_length ELSE 512, BlockCount, FALSE)]

\* usbHsFsMountInspectVolumeBootRecord(lun_ctx, block, 0) with a block buffer just allocated.
InspectVolumeBootRecord(lun) ==
    /\ last.op = "none"
    /\ disk[lun] # EmptyDisk
    /\ \E s \in {usbHsFsMountInspectVolumeBootRecord(
                     [State EXCEPT !.block = Buffer(<<>>, luns[lun].block_length, <<>>)], lun, 0)} :
           last' = [NoOperation EXCEPT !.op = "InspectVBR", !.p = <<lun>>, !.fs_type = s.ret, !.log = s.log]
    /\ UNCHANGED <<luns, g_devoptabDeviceIds, g_devoptabDefaultDeviceId, g_fatFsVolumeTable,
                   g_fileSystemMountFlags, devoptab_list, defaultDevice, driverMounts, disk,
                   g_devoptabDefaultDeviceMutex, threads>>

NextVbr == \E lun \in LunIds : InspectVolumeBootRecord(lun)

SpecVbr == InitVbr /\ [][NextVbr]_vars

----------------------------------------------------------------------------
(* The device registration specification: usbHsFsMountRegisterDevoptabDevice *)
(* is called on the context that usbHsFsMountRegisterVolume has appended to *)
(* logical unit 0, while logical unit 1 holds the EXT volumes of the IDs in *)
(* the device-ID table. The driver handle of the new context plays no part  *)
(* in the function and is left out.                                         *)

\* The device of the volume with the given ID, and the context of that volume as the i-th of lun.
RegisteredDevice(lun, i, device_id) == [name |-> MountName(device_id), deviceData |-> <<lun, i>>]

RegisteredExtContext(lun, i, device_id) ==
    [NewFsCtx(i - 1, FsType_EXT, UsbHsFsMountFlags_Default) EXCEPT
        !.device_id = device_id, !.name = MountName(device_id), !.cwd = <<"/">>,
        !.device = <<RegisteredDevice(lun, i, device_id)>>,
        !.ext = <<[id |-> device_id, dev_name |-> MountName(device_id), flags |-> UsbHsFsMountFlags_Default,
                   part_offset |-> PartitionStride * i, part_size |-> PartitionStride]>>]

InitDevoptab ==
    /\ \E ids \in {l \in IdLists : Len(l) <= MaxVolumes},
          fs_type \in MountableFsTypes \cup {FsType_Unsupported} :
           /\ g_devoptabDeviceIds = ids
           /\ devoptab_list = [i \in DevSlots |->
                                  IF i = 1 THEN dotab_sdmc
                                  ELSE IF i - 1 <= Len(ids) THEN RegisteredDevice(1, i - 1, ids[i - 1])
                                  ELSE dotab_stdnull]
           /\ luns = [l \in LunIds |->
                         [FreshLun(512, BlockCount, FALSE) EXCEPT !.fs_ctx =
                             IF l = 0 THEN <<NewFsCtx(0, fs_type, UsbHsFsMountFlags_Default)>>
                             ELSE [i \in 1 .. Len(ids) |-> RegisteredExtContext(1, i, ids[i])]]]
           /\ driverMounts = {DriverMount(FsType_EXT, <<1, i>>) : i \in 1 .. Len(ids)}
    /\ g_devoptabDefaultDeviceId = DEVOPTAB_INVALID_ID
    /\ g_fatFsVolumeTable = [pdrv \in 0 .. (FF_VOLUMES - 1) |-> FALSE]
    /\ g_fileSystemMountFlags = UsbHsFsMountFlags_Default
    /\ defaultDevice = 1
    /\ disk = [l \in LunIds |-> EmptyDisk]
    /\ NoCallInProgress
    /\ last = NoOperation

\* usbHsFsMountRegisterDevoptabDevice(fs_ctx) for the context p, with the given step failing.
RegisterDevoptabDevice(p, fault) ==
    /\ last.op = "none"
    /\ \E s \in {usbHsFsMountRegisterDevoptabDevice(State, p, fault)} :
           /\ Becomes(s)
           /\ last' = [NoOperation EXCEPT !.op = "RegisterDevoptabDevice", !.p = p, !.fault = fault,
                                          !.fs_type = FsCtx(State, p).fs_type,
                                          !.ret = s.ret, !.log = s.log, !.pre = <<Snapshot(p[1])>>]
    /\ UNCHANGED <<disk, g_devoptabDefaultDeviceMutex, threads>>

SpecDevoptab ==
    InitDevoptab /\ [][\E fault \in {"none"} \cup DevoptabFaults : RegisterDevoptabDevice(<<0, 1>>, fault)]_vars

----------------------------------------------------------------------------
(* The default-device specification: threads call                           *)
(* usbHsFsMountSetDefaultDevoptabDevice (the application's thread) and      *)
(* usbHsFsMountUnsetDefaultDevoptabDevice (the unmount path of the unplug   *)
(* handling) at any time. Both bodies are one SCOPED_LOCK block on          *)
(* g_devoptabDefaultDeviceMutex that every early exit leaves by break: a    *)
(* thread waits at the block until the mutex is free, runs the body holding *)
(* it and gives it up as it leaves the block. The volumes are those of the  *)
(* device-registration specification: logical unit 1 holds the registered   *)
(* volumes and logical unit 0 a context that is not a mounted volume.       *)

InitLock ==
    /\ InitDevoptab
    /\ Len(g_devoptabDeviceIds) < MaxVolumes
    /\ luns[0].fs_ctx[1].fs_type = FsType_Unsupported

\* A thread calls usbHsFsMountSetDefaultDevoptabDevice(fs_ctx), p = <<lun, index>>, or
\* usbHsFsMountUnsetDefaultDevoptabDevice(device_id), p = <<device_id>>, and reaches the SCOPED_LOCK.
Call(t, op, p) ==
    /\ threads[t].pc = "idle"
    /\ threads' = [threads EXCEPT ![t] = [pc |-> "waiting", op |-> op, p |-> p]]
    /\ UNCHANGED <<luns, g_devoptabDeviceIds, g_devoptabDefaultDeviceId, g_fatFsVolumeTable,
                   g_fileSystemMountFlags, devoptab_list, defaultDevice, driverMounts, disk,
                   g_devoptabDefaultDeviceMutex, last>>

\* An entry of SCOPED_LOCK that does not wait for the mutex.
Lock_NoWait(t) ==
    /\ threads[t].pc = "waiting"
    /\ g_devoptabDefaultDeviceMutex' = t
    /\ threads' = [threads EXCEPT ![t].pc = "inside"]
    /\ UNCHANGED <<luns, g_devoptabDeviceIds, g_devoptabDefaultDeviceId, g_fatFsVolumeTable,
                   g_fileSystemMountFlags, devoptab_list, defaultDevice, driverMounts, disk, last>>

\* SCOPED_LOCK(&g_devoptabDefaultDeviceMutex): the thread enters the block once the mutex is free.
Lock(t) ==
    /\ threads[t].pc = "waiting"
    /\ g_devoptabDefaultDeviceMutex = NoThread
    /\ g_devoptabDefaultDeviceMutex' = t
    /\ threads' = [threads EXCEPT ![t].pc = "inside"]
    /\ UNCHANGED <<luns, g_devoptabDeviceIds, g_devoptabDefaultDeviceId, g_fatFsVolumeTable,
                   g_fileSystemMountFlags, devoptab_list, defaultDevice, driverMounts, disk, last>>

\* The body of the block, up to the break or to the end of the block.
Body(t) ==
    /\ threads[t].pc = "inside"
    /\ \E s \in {IF threads[t].op = "SetDefaultDevice"
                  THEN usbHsFsMountSetDefaultDevoptabDevice(State, threads[t].p)
                  ELSE Returning(usbHsFsMountUnsetDefaultDevoptabDevice(State, threads[t].p[1]), TRUE)} :
           /\ Becomes(s)
           /\ last' = [NoOperation EXCEPT !.op = threads[t].op, !.p = threads[t].p,
                                          !.ret = s.ret, !.log = s.log, !.pre = <<Snapshot(1)>>]
    /\ threads' = [threads EXCEPT ![t].pc = "leaving"]
    /\ UNCHANGED <<disk, g_devoptabDefaultDeviceMutex>>

\* The thread leaves the block, by a break or at its end, and the function returns.
Unlock(t) ==
    /\ threads[t].pc = "leaving"
    /\ g_devoptabDefaultDeviceMutex' = NoThread
    /\ threads' = [threads EXCEPT ![t] = IdleThread]
    /\ UNCHANGED <<luns, g_devoptabDeviceIds, g_devoptabDefaultDeviceId, g_fatFsVolumeTable,
                   g_fileSystemMountFlags, devoptab_list, defaultDevice, driverMounts, disk, last>>

NextLock ==
    \/ \E t \in Threads, p \in Contexts : Call(t, "SetDefaultDevice", p)
    \/ \E t \in Threads, device_id \in 0 .. MaxDeviceId : Call(t, "UnsetDefaultDevice", <<device_id>>)
    \/ \E t \in Threads : Lock(t)
    \/ \E t \in Threads : Body(t)
    \/ \E t \in Threads : Unlock(t)

SpecLock == InitLock /\ [][NextLock]_vars

----------------------------------------------------------------------------
(* Properties of the device-ID table and of the default device.             *)

DeviceIdOf(p) == luns[p[1]].fs_ctx[p[2]].device_id

\* C1: whatever registrations and destructions happened, on whichever logical units, no two live
\* filesystem contexts have the same device ID and no ID is twice in g_devoptabDeviceIds.
C1_UniqueDeviceIds ==
    /\ \A p, q \in LiveContexts : p # q => DeviceIdOf(p) # DeviceIdOf(q)
    /\ NoDuplicates(g_devoptabDeviceIds)

\* A volume was registered while another one was live and a third one had been destroyed.
C1_Witness ==
    /\ last.op = "RegisterVolume" /\ last.ret
    /\ Cardinality(LiveContexts) = 2
    /\ Contexts \ LiveContexts # {}

\* C2: the allocator returns the smallest non-negative integer that is not in the table, in
\* whatever order the table holds its IDs; with 0 and 2 left of 0, 1, 2 it returns 1.
C2_SmallestFreeId ==
    /\ last.op = "AllocateDeviceId" =>
           /\ last.ret \in Nat
           /\ last.ret \notin Range(g_devoptabDeviceIds)
           /\ \A n \in 0 .. (last.ret - 1) : n \in Range(g_devoptabDeviceIds)
    /\ usbHsFsMountGetAvailableDevoptabDeviceId(RemoveFirstId(<<0, 1, 2>>, 1)) = 1

\* The allocator was called on a table that is not in ascending order and has a gap below its largest ID.
C2_Witness ==
    /\ last.op = "AllocateDeviceId"
    /\ Len(g_devoptabDeviceIds) >= 2
    /\ g_devoptabDeviceIds[1] > g_devoptabDeviceIds[2]
    /\ \E n \in Range(g_devoptabDeviceIds) : last.ret < n

\* The destruction that has just returned undid the registration made right before it.
RoundTrip == last.op = "Destroy" /\ last.reg_pre # <<>>

DestroyedLive == last.op = "Destroy" /\ last.log # <<>>

\* C4: when the volume SetDefaultDevice made the default one is destroyed, the default device
\* of the C library is "sdmc" and g_devoptabDefaultDeviceId is DEVOPTAB_INVALID_ID afterwards.
C4_DefaultFallsBack ==
    (DestroyedLive /\ last.pre[1].default_id = DeviceIdOf(last.p)) =>
        /\ devoptab_list[defaultDevice] = dotab_sdmc
        /\ g_devoptabDefaultDeviceId = DEVOPTAB_INVALID_ID

\* The default volume was destroyed: it was the default device of the C library, too.
C4_Witness ==
    /\ DestroyedLive
    /\ last.pre[1].default_id = DeviceIdOf(last.p)
    /\ last.pre[1].default_devoptab.deviceData = last.p

\* C5: the destruction of a volume that is not the default one changes neither the default
\* device of the C library nor g_devoptabDefaultDeviceId.
C5_DefaultUntouched ==
    (last.op = "Destroy" /\ last.pre[1].default_id # DeviceIdOf(last.p)) =>
        /\ devoptab_list[defaultDevice] = last.pre[1].default_devoptab
        /\ g_devoptabDefaultDeviceId = last.pre[1].default_id

\* A valid volume was destroyed while another volume was the default one.
C5_Witness ==
    /\ DestroyedLive
    /\ last.pre[1].default_id # DEVOPTAB_INVALID_ID
    /\ last.pre[1].default_id # DeviceIdOf(last.p)

----------------------------------------------------------------------------
(* Properties of the initialization of a logical unit.                      *)

\* The initialization that has just returned, with the block buffer allocated.
Initialized == last.op = "Initialize" /\ last.fault = "none"

\* Every allocation and mount of that initialization succeeded.
NothingFailed == Initialized /\ last.plan = NoPlan

\* The calls of usbHsFsMountRegisterVolume that initialization made.
RegisterVolumeCalls == SelectSeq(last.log, LAMBDA e : e[1] = "RegisterVolume")

InitializedLun == luns[last.p[1]]

InitializedDisk == disk[last.p[1]]

\* C6: the initialization returns true if it registered at least one filesystem and false if it
\* registered none; it returns true as well when only some of the volumes it found were registered.
C6_SuccessIffRegistered ==
    last.op = "Initialize" => (last.ret <=> Len(InitializedLun.fs_ctx) > 0)

\* Some registrations of one initialization failed and some succeeded.
C6_Witness ==
    /\ Initialized /\ last.ret
    /\ Len(InitializedLun.fs_ctx) >= 1
    /\ Len(InitializedLun.fs_ctx) < Len(RegisterVolumeCalls)

\* The block at lba of d is a FAT32 VBR: jump code, "FAT32   " and boot signature.
IsFat32Vbr(d, lba) ==
    /\ lba \in DOMAIN d.blocks
    /\ LET vbr == Buffer(d.blocks[lba], d.block_length, <<>>)
       IN  /\ Byte(vbr, 0) \in {235, 233, 232}
           /\ Bytes(vbr, 82, 8) = Fat32FsType
           /\ LE(vbr, 510, 2) = BOOT_SIGNATURE

\* The partition entries of the MBR of d.
MbrEntriesOf(d) ==
    [i \in 0 .. (MBR_PARTITION_COUNT - 1) |->
        PartitionEntryAt(Buffer(d.blocks[0], d.block_length, <<>>), 446 + 16 * i)]

\* Block 0 of d is an MBR, not a VBR, whose i-th entry has type 0x0C and points at a FAT32 VBR,
\* and whose other entries are empty.
OneFat32LbaEntry(d, i) ==
    /\ 0 \in DOMAIN d.blocks
    /\ ClassifyVolumeBootRecord(Buffer(d.blocks[0], d.block_length, <<>>), d.block_length) = FsType_Unsupported
    /\ MbrEntriesOf(d)[i].type = 12
    /\ IsFat32Vbr(d, MbrEntriesOf(d)[i].lba)
    /\ \A j \in 0 .. (MBR_PARTITION_COUNT - 1) : j # i => MbrEntriesOf(d)[j].type = 0

\* C7: when block 0 is an MBR with one entry of type 0x0C that points at a FAT32 VBR and nothing
\* fails, the initialization registers exactly one volume: a FAT one, at the LBA of that entry.
C7_SingleFat32Partition ==
    \A i \in 0 .. (MBR_PARTITION_COUNT - 1) :
        (NothingFailed /\ OneFat32LbaEntry(InitializedDisk, i)) =>
            /\ Volumes(InitializedLun) = <<<<FsType_FAT, MbrEntriesOf(InitializedDisk)[i].lba>>>>
            /\ last.ret

\* Such an MBR was parsed: its entry was the last of the four and was not the first block after
\* the MBR's partition stride.
C7_Witness ==
    /\ NothingFailed
    /\ OneFat32LbaEntry(InitializedDisk, MBR_PARTITION_COUNT - 1)
    /\ MbrEntriesOf(InitializedDisk)[MBR_PARTITION_COUNT - 1].lba > PartitionStride

\* The disk is a GPT one whose primary header has a wrong header_crc32 and whose backup header
\* is a valid one.
CorruptPrimaryValidBackup(d) ==
    d.kind = "gpt" /\ d.opts.crc_delta # 0 /\ d.opts.backup = "valid"

\* C8: on a GPT disk whose primary header has a corrupted CRC32 and whose backup header is
\* valid, the parser goes by the backup header and registers the volumes (types and LBAs) it
\* registers on the same disk with the CRC32 of the primary header as it should be.
C8_BackupHeaderEquivalent ==
    (Initialized /\ CorruptPrimaryValidBackup(InitializedDisk)) =>
        /\ \E k \in 1 .. Len(last.log) : last.log[k][1] = "gpt_backup"
        /\ Volumes(InitializedLun) = last.pre[1].volumes
        /\ last.ret = last.pre[1].ret

\* Two volumes were registered by way of the backup header.
C8_Witness ==
    /\ NothingFailed
    /\ CorruptPrimaryValidBackup(InitializedDisk)
    /\ Len(InitializedLun.fs_ctx) = 2

\* The GPT header the parser goes by (the primary one, or the backup one when the CRC32 of the
\* primary one is wrong) states an entry size that is not sizeof(GuidPartitionTableEntry).
WrongEntrySize(d) ==
    /\ d.kind = "gpt"
    /\ d.opts.crc_delta = 0 \/ d.opts.backup = "valid"
    /\ d.opts.entry_size # GPT_ENTRY_SIZE

\* C9: a GPT header whose partition_array_entry_size is not 128 has no volume registered, and
\* the initialization of a disk that holds nothing but that GPT returns false.
C9_EntrySizeRejected ==
    (Initialized /\ WrongEntrySize(InitializedDisk)) =>
        /\ RegisterVolumeCalls = <<>>
        /\ InitializedLun.fs_ctx = <<>>
        /\ ~last.ret

\* Such a header was parsed on a disk whose partition array holds volumes.
C9_Witness ==
    /\ NothingFailed
    /\ WrongEntrySize(InitializedDisk)
    /\ Len(InitializedDisk.parts) = 2
    /\ \E k \in 1 .. Len(last.log) : last.log[k][1] = "gpt_entry_size"

\* The volumes of an EBR chain disk, in chain order: the i-th partition is one block after its EBR.
ChainVolumes(d) ==
    [i \in 1 .. Len(d.parts) |-> <<FsTypeOf(d.parts[i]), PartitionStride * i + 1>>]

\* C10 as stated: a chain of N EBRs, each with a partition the driver recognizes, has exactly
\* those N partitions registered, in chain order, and the walk ends at the EBR whose next_ebr.lba
\* is 0.
C10_EbrChainAsStated ==
    (/\ NothingFailed
     /\ InitializedDisk.kind = "ebr"
     /\ Cardinality({i \in 1 .. Len(InitializedDisk.parts) : InitializedDisk.parts[i] = "fat32"}) <= FF_VOLUMES)
    => /\ Volumes(InitializedLun) = ChainVolumes(InitializedDisk)
       /\ ~last.hang

\* A chain of EBRs was walked on a disk of 512-byte blocks, with bytes after the block buffer
\* that read as the boot signature.
C10_Witness ==
    /\ NothingFailed
    /\ InitializedDisk.kind = "ebr"
    /\ InitializedDisk.block_length = 512
    /\ InitializedDisk.tail # <<>>
    /\ Len(InitializedDisk.parts) >= 2

----------------------------------------------------------------------------
(* Properties of the classification of a boot record.                       *)

\* The block that usbHsFsMountInspectVolumeBootRecord has just read and classified.
InspectedBlock == Buffer(disk[last.p[1]].blocks[0], disk[last.p[1]].block_length, <<>>)

InspectedRead == last.op = "InspectVBR" /\ last.log = <<<<"read", 0, TRUE>>>>

ValidJump(buf) == Byte(buf, 0) \in {235, 233, 232}

\* The block has the boot signature and passes none of the exFAT, NTFS, FAT32 and legacy FAT tests.
SignedUnrecognized(buf, block_length) ==
    /\ LE(buf, 510, 2) = BOOT_SIGNATURE
    /\ Bytes(buf, 0, 11) # ExFatMarker
    /\ Bytes(buf, 3, 8) # NtfsOemName
    /\ ~(ValidJump(buf) /\ Bytes(buf, 82, 8) = Fat32FsType)
    /\ ~(ValidJump(buf) /\ LegacyFatHeuristic(buf, block_length))

\* C11: a block that was read, has the boot signature 0xAA55 and passes none of the exFAT, NTFS,
\* FAT32 and legacy FAT tests is classified Unsupported, never Invalid; so is the block that has
\* the signature and nothing else, whatever its first byte.
C11_SignedIsUnsupported ==
    InspectedRead =>
        /\ SignedUnrecognized(InspectedBlock, disk[last.p[1]].block_length) => last.fs_type = FsType_Unsupported
        /\ LET o == disk[last.p[1]].opts
           IN  (o.sig /\ o.oem = "none" /\ o.label = "none" /\ o.bpb = "zero") => last.fs_type = FsType_Unsupported

\* A signed block with a valid jump code and a BPB that fails the legacy FAT test was classified.
C11_Witness ==
    /\ InspectedRead
    /\ SignedUnrecognized(InspectedBlock, disk[last.p[1]].block_length)
    /\ ValidJump(InspectedBlock)
    /\ disk[last.p[1]].opts.bpb = "few_sectors"

----------------------------------------------------------------------------
(* Properties of a failed registration.                                     *)

\* C12: a call of usbHsFsMountRegisterVolume that fails, at whichever step, leaves the filesystem
\* contexts of every logical unit (their count and their contents), the device-ID table and the
\* FAT volume table as they were before the call.
C12_FailureRollsBack ==
    [][(last'.op = "RegisterVolume" /\ ~last'.ret) =>
           /\ luns' = luns
           /\ g_devoptabDeviceIds' = g_devoptabDeviceIds
           /\ g_fatFsVolumeTable' = g_fatFsVolumeTable]_vars

\* A FAT registration failed at its last step, the growth of the device-ID table, on a logical
\* unit that has a volume already.
C12_Witness ==
    /\ last.op = "RegisterVolume" /\ ~last.ret
    /\ last.fs_type = FsType_FAT
    /\ last.fault = "realloc_device_ids"
    /\ last.pre[1].fs_count >= 1

\* The driver-level mount a valid context stands for.
DriverMountOf(p) ==
    LET ctx == luns[p[1]].fs_ctx[p[2]]
    IN  IF ctx.fs_type = FsType_FAT THEN DriverMount(FsType_FAT, <<ctx.fatfs[1].pdrv>>)
        ELSE DriverMount(ctx.fs_type, p)

\* The driver calls of the registration that has just returned: a mount that succeeded ...
MountedAt(k) ==
    /\ last.log[k][1] \in {"ff_mount", "ntfs_device_mount", "ext_mount"}
    /\ last.log[k][3]

\* ... and the unmount of the same volume.
UnmountedAt(k, m) ==
    /\ last.log[m][1] = (IF last.log[k][1] = "ff_mount" THEN "ff_unmount"
                         ELSE IF last.log[k][1] = "ntfs_device_mount" THEN "ntfs_umount"
                         ELSE "ext_umount")
    /\ last.log[m][2] = last.log[k][2]

\* The registration that has just returned mounted its volume and failed to register the device.
DeviceRegistrationFailed ==
    /\ last.op = "RegisterVolume"
    /\ last.fault \in DevoptabFaults
    /\ \E k \in 1 .. Len(last.log) : MountedAt(k)

\* C13: when the driver mount of a FAT, NTFS or EXT volume succeeds and the registration of its
\* device then fails, usbHsFsMountRegisterVolume returns false after the matching unmount, and
\* the volumes that the drivers hold mounted are those of the valid contexts.
C13_MountUndone ==
    DeviceRegistrationFailed =>
        /\ ~last.ret
        /\ \A k \in 1 .. Len(last.log) :
               MountedAt(k) => \E m \in (k + 1) .. Len(last.log) : UnmountedAt(k, m)
        /\ driverMounts = {DriverMountOf(p) : p \in LiveContexts}

\* The device registration of an EXT volume failed in AddDevice while another volume was mounted.
C13_Witness ==
    /\ DeviceRegistrationFailed
    /\ last.fs_type = FsType_EXT
    /\ last.fault = "AddDevice"
    /\ driverMounts # {}

\* C14: when usbHsFsMountRegisterDevoptabDevice fails, at whichever step, the context has no
\* mount name, no working directory and no device, the device table of the C library has no
\* device of that context, and the device-ID table is as it was. Each of the six failures, the
\* unknown filesystem type and the full device table make it fail.
C14_DeviceRegistrationUndone ==
    last.op = "RegisterDevoptabDevice" =>
        /\ (\/ last.fault # "none"
            \/ last.fs_type \notin MountableFsTypes
            \/ Len(last.pre[1].ids) = MaxVolumes) => ~last.ret
        /\ ~last.ret =>
               /\ FsCtx(State, last.p).name = NULL
               /\ FsCtx(State, last.p).cwd = NULL
               /\ FsCtx(State, last.p).device = NULL
               /\ \A i \in DevSlots : devoptab_list[i].deviceData # last.p
               /\ Cardinality({i \in DevSlots : devoptab_list[i] # dotab_stdnull}) = Len(last.pre[1].ids) + 1
               /\ g_devoptabDeviceIds = last.pre[1].ids

\* The growth of the device-ID table failed after AddDevice had put the device into a table that
\* held another volume's.
C14_Witness ==
    /\ last.op = "RegisterDevoptabDevice" /\ ~last.ret
    /\ last.fault = "realloc_device_ids"
    /\ last.pre[1].ids # <<>>
    /\ \E k \in 1 .. Len(last.log) : last.log[k][1] = "RemoveDevice"

----------------------------------------------------------------------------
(* Mutual exclusion of the default-device section.                          *)

\* The thread is inside the SCOPED_LOCK block of one of the two functions.
InSection(t) == threads[t].pc \in {"inside", "leaving"}

----------------------------------------------------------------------------
(* Driver handles of the registered contexts.                               *)

\* The driver handles of a context that are not null.
DriverHandles(ctx) ==
    {fs_type \in MountableFsTypes :
        \/ fs_type = FsType_FAT /\ ctx.fatfs # NULL
        \/ fs_type = FsType_NTFS /\ ctx.ntfs # NULL
        \/ fs_type = FsType_EXT /\ ctx.ext # NULL}

----------------------------------------------------------------------------
(* Mount names.                                                             *)

\* The name under which the volume of the context p is mounted: the name of its device in the
\* device table of the C library.
MountedName(p) == luns[p[1]].fs_ctx[p[2]].device[1].name

\* C17: the mount name of every mounted volume is "ums" followed by the decimal digits of its
\* device ID, in the context and in the device table, and no two volumes mounted at the same time
\* have the same mount name.
C17_MountNames ==
    /\ \A p \in LiveContexts :
           /\ luns[p[1]].fs_ctx[p[2]].name = <<"u", "m", "s">> \o UIntToStr(DeviceIdOf(p))
           /\ MountedName(p) = luns[p[1]].fs_ctx[p[2]].name
           /\ \E i \in DevSlots : devoptab_list[i] = luns[p[1]].fs_ctx[p[2]].device[1]
    /\ \A p, q \in LiveContexts : p # q => MountedName(p) # MountedName(q)

\* Two volumes are mounted, the one registered last under a device ID that an unmounted volume
\* had given back and that is smaller than the ID of the other.
C17_Witness ==
    /\ last.op = "RegisterVolume"
    /\ last.ret
    /\ IsLive(last.p)
    /\ \E p \in Contexts : ~IsLive(p)
    /\ \E q \in LiveContexts : DeviceIdOf(last.p) < DeviceIdOf(q)

----------------------------------------------------------------------------
(* The entries of the GPT partition array.                                  *)

\* The partition entries the loop of usbHsFsMountParseGuidPartitionTable examined, in order:
\* the type GUID, the start LBA and the size it used for each.
ExaminedEntries == SelectSeq(last.log, LAMBDA e : e[1] = "gpt_entry")

\* The LBA of the GPT header the parser went by.
GptHeaderLbaUsed ==
    IF \E k \in 1 .. Len(last.log) : last.log[k][1] = "gpt_backup"
    THEN last.log[CHOOSE k \in 1 .. Len(last.log) : last.log[k][1] = "gpt_backup"][2]
    ELSE 1

\* A block of the disk d.
BlockOf(d, lba) == Buffer(IF lba \in DOMAIN d.blocks THEN d.blocks[lba] ELSE <<>>, d.block_length, <<>>)

\* partition_array_count of the header the parser went by.
DeclaredEntryCount == LE(BlockOf(InitializedDisk, GptHeaderLbaUsed), 80, 4)

\* The k-th entry (from 0) of the partition array of d that the header at header_lba points at,
\* as it is stored on the disk.
OnDiskGptEntry(d, header_lba, k) ==
    LET part_per_block == d.block_length \div GPT_ENTRY_SIZE
        array_block == BlockOf(d, LE(BlockOf(d, header_lba), 72, 8) + (k \div part_per_block))
        off == (k % part_per_block) * GPT_ENTRY_SIZE
    IN  <<"gpt_entry", Bytes(array_block, off, 16), LE(array_block, off + 32, 8),
          (LE(array_block, off + 40, 8) + 1) - LE(array_block, off + 32, 8)>>

\* C18, as stated: every entry of a partition-array block is examined with the type GUID, the
\* start LBA and the size that the partition array on the disk holds for it, whatever was done
\* for the entries before it in the same block.
C18_EntriesFromDiskAsStated ==
    (Initialized /\ InitializedDisk.kind = "gpt") =>
        \A k \in 1 .. Len(ExaminedEntries) :
            ExaminedEntries[k] = OnDiskGptEntry(InitializedDisk, GptHeaderLbaUsed, k - 1)

\* The partition array holds two volumes in entries 0 and 1 of its first block, the first entry
\* was examined as the disk has it and its volume was inspected and registered, and entry 1 was
\* examined after it.
C18_Witness ==
    /\ NothingFailed
    /\ InitializedDisk.kind = "gpt"
    /\ Len(ExaminedEntries) >= 2
    /\ ExaminedEntries[1] = OnDiskGptEntry(InitializedDisk, GptHeaderLbaUsed, 0)
    /\ ExaminedEntries[1][2] \in {g_microsoftBasicDataPartitionGuid, g_linuxFilesystemDataGuid}
    /\ OnDiskGptEntry(InitializedDisk, GptHeaderLbaUsed, 1)[2]
           \in {g_microsoftBasicDataPartitionGuid, g_linuxFilesystemDataGuid}
    /\ Len(RegisterVolumeCalls) >= 1

\* The parser went by a header with the entry size of GuidPartitionTableEntry, and every block
\* it asked for was read.
HeaderAccepted ==
    /\ Initialized
    /\ InitializedDisk.kind = "gpt"
    /\ LE(BlockOf(InitializedDisk, GptHeaderLbaUsed), 84, 4) = GPT_ENTRY_SIZE
    /\ \E k \in 1 .. Len(last.log) : last.log[k] = <<"read", GptHeaderLbaUsed, TRUE>>
    /\ GptHeaderLbaUsed = 1 => InitializedDisk.opts.crc_delta = 0
    /\ \A k \in 1 .. Len(last.log) : last.log[k][1] = "read" => last.log[k][3]

\* min(partition_array_count, 128) of the header the parser went by.
EntriesToExamine == IF DeclaredEntryCount > 128 THEN 128 ELSE DeclaredEntryCount

\* C19, as stated: whatever number of entries an accepted header declares, a multiple of the
\* entries per block or not, the parser examines each of the first min(count, 128) entries of
\* the partition array and no other, the first entry of every block as the disk has it.
C19_EveryEntryExaminedAsStated ==
    HeaderAccepted =>
        /\ Len(ExaminedEntries) = EntriesToExamine
        /\ \A k \in 1 .. EntriesToExamine :
               (k - 1) % (InitializedLun.block_length \div GPT_ENTRY_SIZE) = 0 =>
                   ExaminedEntries[k] = OnDiskGptEntry(InitializedDisk, GptHeaderLbaUsed, k - 1)

\* An accepted header of a disk of 512-byte blocks declares three entries, the first of which
\* holds a volume.
C19_Witness ==
    /\ NothingFailed
    /\ HeaderAccepted
    /\ InitializedLun.block_length = 512
    /\ DeclaredEntryCount = 3
    /\ OnDiskGptEntry(InitializedDisk, GptHeaderLbaUsed, 0)[2]
           \in {g_microsoftBasicDataPartitionGuid, g_linuxFilesystemDataGuid}

\* C20: whatever number of entries the header declares and whatever the block length, the
\* parser examines no more than 128 partition entries.
C20_AtMost128Entries ==
    (last.op = "Initialize" /\ InitializedDisk.kind = "gpt") => Len(ExaminedEntries) <= 128

\* A header that declares more than 128 entries was parsed on a disk of 4096-byte blocks: 128
\* entries were examined, the last of them the entry 127, whose volume was registered.
C20_Witness ==
    /\ NothingFailed
    /\ HeaderAccepted
    /\ InitializedLun.block_length = 4096
    /\ DeclaredEntryCount > 128
    /\ Len(ExaminedEntries) = 128
    /\ ExaminedEntries[128] = OnDiskGptEntry(InitializedDisk, GptHeaderLbaUsed, 127)
    /\ Len(InitializedLun.fs_ctx) = 1

----------------------------------------------------------------------------
(* The boot record rules.                                                   *)

\* n is 1, 2, 4, ..., 32768.
IsPowerOfTwo(n) == \E k \in 0 .. 15 : n = 2 ^ k

\* The conditions on the BIOS parameter block of buf, as they are stated.
BpbConditions(buf, block_length) ==
    /\ IsPowerOfTwo(LE(buf, 11, 2))
    /\ LE(buf, 11, 2) <= block_length
    /\ IsPowerOfTwo(LE(buf, 13, 1))
    /\ LE(buf, 14, 2) # 0
    /\ LE(buf, 16, 1) \in {1, 2}
    /\ LE(buf, 17, 2) # 0
    /\ (LE(buf, 19, 2) >= 128 \/ LE(buf, 32, 4) >= 65536)
    /\ LE(buf, 22, 2) # 0

\* None of the exFAT, NTFS and FAT32 rules applies to the block, and its jump code is valid: the
\* legacy FAT rule decides.
LegacyRuleDecides(buf) ==
    /\ ValidJump(buf)
    /\ ~(LE(buf, 510, 2) = BOOT_SIGNATURE /\ Bytes(buf, 0, 11) = ExFatMarker)
    /\ ~(LE(buf, 510, 2) = BOOT_SIGNATURE /\ Bytes(buf, 3, 8) = NtfsOemName)
    /\ ~(LE(buf, 510, 2) = BOOT_SIGNATURE /\ Bytes(buf, 82, 8) = Fat32FsType)

\* C21, as stated: a block the legacy FAT rule decides is classified FAT exactly if its sector
\* size is a power of two not above the block length, its sectors per cluster a power of two,
\* its reserved sectors, root directory entries and sectors per FAT not zero, its FAT count 1
\* or 2 and its total sectors at least 128 (16-bit field) or 0x10000 (32-bit field); a block
\* with no FAT copy or a sector size of zero is not classified FAT.
C21_LegacyHeuristicAsStated ==
    (InspectedRead /\ LegacyRuleDecides(InspectedBlock)) =>
        (last.fs_type = FsType_FAT <=> BpbConditions(InspectedBlock, disk[last.p[1]].block_length))

\* A block with a valid jump code whose BIOS parameter block states no FAT copy, or a sector
\* size of zero, and otherwise what an old formatting tool writes, was classified.
C21_Witness ==
    /\ InspectedRead
    /\ LegacyRuleDecides(InspectedBlock)
    /\ disk[last.p[1]].opts.bpb \in {"no_fats", "zero_sector_size"}
    /\ last.fs_type = FsType_FAT

Signed(buf) == LE(buf, 510, 2) = BOOT_SIGNATURE

\* C22: the rules apply in their order of priority. With the boot signature, the exFAT marker
\* gives FAT and otherwise the OEM name "NTFS    " gives NTFS, whatever the BPB holds; where
\* neither applies nor the legacy rule passes, the FAT32 type string gives FAT exactly with a
\* valid jump code and the boot signature; a block without boot signature that does not pass
\* the legacy rule is Invalid, and so is a block that could not be read.
C22_RulesInOrder ==
    /\ InspectedRead =>
           /\ (Signed(InspectedBlock) /\ Bytes(InspectedBlock, 0, 11) = ExFatMarker)
                  => last.fs_type = FsType_FAT
           /\ (Signed(InspectedBlock) /\ Bytes(InspectedBlock, 0, 11) # ExFatMarker
                   /\ Bytes(InspectedBlock, 3, 8) = NtfsOemName)
                  => last.fs_type = FsType_NTFS
           /\ (Bytes(InspectedBlock, 82, 8) = Fat32FsType
                   /\ ~(Signed(InspectedBlock) /\ Bytes(InspectedBlock, 0, 11) = ExFatMarker)
                   /\ ~(Signed(InspectedBlock) /\ Bytes(InspectedBlock, 3, 8) = NtfsOemName)
                   /\ ~(ValidJump(InspectedBlock)
                          /\ LegacyFatHeuristic(InspectedBlock, disk[last.p[1]].block_length)))
                  => (last.fs_type = FsType_FAT <=> (ValidJump(InspectedBlock) /\ Signed(InspectedBlock)))
           /\ (~Signed(InspectedBlock)
                   /\ ~(ValidJump(InspectedBlock)
                          /\ LegacyFatHeuristic(InspectedBlock, disk[last.p[1]].block_length)))
                  => last.fs_type = FsType_Invalid
    /\ (last.op = "InspectVBR" /\ last.log = <<<<"read", 0, FALSE>>>>) => last.fs_type = FsType_Invalid

\* A block with the OEM name "NTFS    " and the FAT32 type string but without boot signature,
\* whose BPB does not pass the legacy rule, was classified Invalid.
C22_Witness ==
    /\ InspectedRead
    /\ ~Signed(InspectedBlock)
    /\ ValidJump(InspectedBlock)
    /\ Bytes(InspectedBlock, 3, 8) = NtfsOemName
    /\ Bytes(InspectedBlock, 82, 8) = Fat32FsType
    /\ disk[last.p[1]].opts.bpb = "few_sectors"
    /\ last.fs_type = FsType_Invalid

----------------------------------------------------------------------------
(* The backup GPT header.                                                   *)

\* The block at LBA 1, which the protective MBR of every GPT disk of the model points at.
PrimaryHeader == BlockOf(InitializedDisk, 1)

\* The primary header was read, has signature, revision and header size, and fails its CRC32.
CorruptPrimary ==
    /\ Initialized
    /\ InitializedDisk.kind = "gpt"
    /\ \E k \in 1 .. Len(last.log) : last.log[k] = <<"read", 1, TRUE>>
    /\ Bytes(PrimaryHeader, 0, 16) = GptHeaderMagic
    /\ GptHeaderChecksum(PrimaryHeader) # LE(PrimaryHeader, 16, 4)

\* backup_header_lba of the primary header.
RecordedBackupLba == LE(PrimaryHeader, 32, 8)

\* The block reads of the initialization, successful or not.
BlockReads == SelectSeq(last.log, LAMBDA e : e[1] = "read")

\* C23: after the primary header failed its CRC32, a backup header whose recorded LBA is zero,
\* at or beyond the block count of the unit, or the LBA the primary header was read from is not
\* used: the parser goes by no backup header, examines no partition entry and registers
\* nothing, and a recorded LBA of zero or beyond the unit is not read at all. No more than one
\* block is read for a backup header.
C23_BackupRejected ==
    CorruptPrimary =>
        /\ (RecordedBackupLba = 0 \/ RecordedBackupLba >= InitializedLun.block_count \/ RecordedBackupLba = 1)
               => /\ \A k \in 1 .. Len(last.log) : last.log[k][1] # "gpt_backup"
                  /\ ExaminedEntries = <<>>
                  /\ RegisterVolumeCalls = <<>>
                  /\ InitializedLun.fs_ctx = <<>>
        /\ (RecordedBackupLba = 0 \/ RecordedBackupLba >= InitializedLun.block_count)
               => BlockReads = <<<<"read", 0, TRUE>>, <<"read", 1, TRUE>>>>
        /\ Len(SelectSeq(last.log, LAMBDA e : e[1] = "gpt_backup")) <= 1
        /\ ExaminedEntries = <<>> => Len(BlockReads) <= 3

\* The corrupt primary header at LBA 1 records LBA 1 for its backup and another LBA for itself.
C23_Witness ==
    /\ CorruptPrimary
    /\ RecordedBackupLba = 1
    /\ LE(PrimaryHeader, 24, 8) # 1
    /\ ~last.ret

\* The header the parser went by.
HeaderUsed == BlockOf(InitializedDisk, GptHeaderLbaUsed)

\* C24, as stated: partition entries are examined only by way of a header, primary or backup,
\* that has the signature "EFI PART", the revision and the header size and whose CRC32, computed
\* with the checksum field taken as zero, is the one it records.
C24_ValidHeaderOnlyAsStated ==
    (Initialized /\ InitializedDisk.kind = "gpt" /\ ExaminedEntries # <<>>) =>
        /\ Bytes(HeaderUsed, 0, 16) = GptHeaderMagic
        /\ GptHeaderChecksum(HeaderUsed) = LE(HeaderUsed, 16, 4)

\* The parser went by a backup header whose CRC32 is right and whose signature or revision is
\* not, and registered the volume of its partition array.
C24_Witness ==
    /\ NothingFailed
    /\ CorruptPrimary
    /\ GptHeaderLbaUsed = RecordedBackupLba
    /\ Bytes(HeaderUsed, 0, 16) # GptHeaderMagic
    /\ GptHeaderChecksum(HeaderUsed) = LE(HeaderUsed, 16, 4)
    /\ Len(InitializedLun.fs_ctx) = 1

----------------------------------------------------------------------------
(* The walk of the chain of extended boot records.                          *)

\* C25, as stated: the walk of the EBR chain ends whatever the device holds, chains whose
\* next-EBR pointer leads back to an EBR already visited and failing reads included, so that
\* the initialization returns.
C25_WalkTerminatesAsStated == last.op = "Initialize" => ~last.hang

\* The second EBR of the chain points at itself and holds no partition: it was read twice in a
\* row, with nothing done in between, and the walk goes on.
C25_Witness ==
    /\ Initialized
    /\ InitializedDisk.kind = "ebr_struct"
    /\ InitializedDisk.opts.next_lba = 2
    /\ last.hang
    /\ \E k \in 1 .. (Len(last.log) - 1) :
           /\ last.log[k] = <<"read", PartitionStride + 2, TRUE>>
           /\ last.log[k + 1] = last.log[k]

\* C26: a partition entry found in an EBR of the chain is classified as an entry of the MBR is,
\* by its type code, and its volume registered; an entry of type 0x05, 0x0F, 0x85 or 0xEE starts
\* no walk of a further chain and no GPT parse: the table it points at is not read and nothing
\* is registered.
C26_NoNestedParse ==
    /\ (Initialized /\ InitializedDisk.kind = "ebr_nested") =>
           /\ BlockReads = <<<<"read", 0, TRUE>>, <<"read", PartitionStride, TRUE>>>>
           /\ RegisterVolumeCalls = <<>>
           /\ InitializedLun.fs_ctx = <<>>
           /\ ~last.ret
    /\ (NothingFailed /\ InitializedDisk.kind = "ebr_struct" /\ InitializedDisk.opts.next_lba = 0) =>
           Volumes(InitializedLun) =
               IF InitializedDisk.parts[1] = "none" THEN <<>>
               ELSE <<<<FsTypeOf(InitializedDisk.parts[1]), PartitionStride + 3>>>>

\* The EBR of the chain holds an entry of type 0xEE that points at a valid GPT with a volume.
C26_Witness ==
    /\ Initialized
    /\ InitializedDisk.kind = "ebr_nested"
    /\ InitializedDisk.opts.type = MasterBootRecordPartitionType_GPT_Protective_MBR
    /\ Len(BlockReads) = 2

----------------------------------------------------------------------------
(* The table of FatFs volume slots.                                         *)

\* The live FAT contexts whose FATFS object holds the slot pdrv.
SlotOccupants(pdrv) ==
    {p \in LiveContexts :
        /\ luns[p[1]].fs_ctx[p[2]].fs_type = FsType_FAT
        /\ luns[p[1]].fs_ctx[p[2]].fatfs[1].pdrv = pdrv}

BusySlots(table) == {pdrv \in 0 .. (FF_VOLUMES - 1) : table[pdrv]}

\* C27: after any sequence of registrations, failed or not, and of destructions, a slot of
\* g_fatFsVolumeTable is busy exactly when one live FAT context occupies it and no slot has two
\* occupants, so at most FF_VOLUMES FAT volumes are mounted at once; a FAT registration that
\* finds every slot busy fails, and a FAT registration that fails leaves the table as it was.
C27_SlotBusyIffOccupied ==
    /\ \A pdrv \in 0 .. (FF_VOLUMES - 1) :
           Cardinality(SlotOccupants(pdrv)) = (IF g_fatFsVolumeTable[pdrv] THEN 1 ELSE 0)
    /\ Cardinality({p \in LiveContexts : luns[p[1]].fs_ctx[p[2]].fs_type = FsType_FAT}) <= FF_VOLUMES
    /\ Cardinality({m \in driverMounts : m.fs = FsType_FAT}) <= FF_VOLUMES
    /\ (last.op = "RegisterVolume" /\ last.fs_type = FsType_FAT) =>
           /\ BusySlots(last.pre[1].fat) = 0 .. (FF_VOLUMES - 1) => ~last.ret
           /\ ~last.ret => g_fatFsVolumeTable = last.pre[1].fat
           /\ last.ret => /\ BusySlots(g_fatFsVolumeTable) =
                               BusySlots(last.pre[1].fat) \cup {FsCtx(State, last.p).fatfs[1].pdrv}
                          /\ FsCtx(State, last.p).fatfs[1].pdrv \notin BusySlots(last.pre[1].fat)

\* A FAT registration in which no call was made to fail has failed because every slot was
\* busy, each slot being held by one live FAT context.
C27_Witness ==
    /\ last.op = "RegisterVolume"
    /\ last.fs_type = FsType_FAT
    /\ last.fault = "none"
    /\ ~last.ret
    /\ BusySlots(g_fatFsVolumeTable) = 0 .. (FF_VOLUMES - 1)
    /\ \A pdrv \in 0 .. (FF_VOLUMES - 1) : Cardinality(SlotOccupants(pdrv)) = 1

----------------------------------------------------------------------------
(* Block-read failures while the partitions are walked.                     *)

\* The volumes of a ReadFailureDisk that lie behind readable blocks only, in the order of the
\* MBR entries: type and first LBA.
ReachableVolumes(d) ==
    LET base == 2 * PartitionStride
        needed == base .. d.opts.ntfs_lba
    IN  (IF PartitionStride \in d.bad THEN <<>> ELSE <<<<FsType_FAT, PartitionStride>>>>)
        \o (IF needed \cap d.bad # {} THEN <<>> ELSE <<<<FsType_NTFS, d.opts.ntfs_lba>>>>)
        \o (IF 5 * PartitionStride \in d.bad THEN <<>> ELSE <<<<FsType_FAT, 5 * PartitionStride>>>>)

FailedReads == SelectSeq(last.log, LAMBDA e : e[1] = "read" /\ ~e[3])

\* C28: on a disk whose MBR has a FAT32 volume, then a second partition (an NTFS volume, an EBR
\* chain or a GPT holding one) and then another FAT32 volume, a block that cannot be read while
\* one entry is processed makes that entry yield no volume and nothing else: the registrations
\* asked for, whatever becomes of them, are those of the volumes behind readable blocks, in the
\* order of the MBR entries, the volumes registered when no registration fails are those same
\* volumes, and the block of the third entry is read whatever failed before it.
C28_ReadFailureIsLocal ==
    (Initialized /\ InitializedDisk.kind = "read_failure") =>
        /\ [k \in 1 .. Len(RegisterVolumeCalls) |-> <<RegisterVolumeCalls[k][2], RegisterVolumeCalls[k][3]>>]
               = ReachableVolumes(InitializedDisk)
        /\ NothingFailed => Volumes(InitializedLun) = ReachableVolumes(InitializedDisk)
        /\ BlockReads[Len(BlockReads)] =
               <<"read", 5 * PartitionStride, 5 * PartitionStride \notin InitializedDisk.bad>>
        /\ \A k \in 1 .. Len(BlockReads) : BlockReads[k][3] <=> BlockReads[k][2] \notin InitializedDisk.bad

\* A read has failed while the second MBR entry was processed, in the EBR chain or in the GPT,
\* and the volumes of the first and of the third entry are registered.
C28_Witness ==
    /\ NothingFailed
    /\ InitializedDisk.kind = "read_failure"
    /\ InitializedDisk.opts.table \in {"ebr", "gpt"}
    /\ FailedReads # <<>>
    /\ Volumes(InitializedLun) = <<<<FsType_FAT, PartitionStride>>, <<FsType_FAT, 5 * PartitionStride>>>>

----------------------------------------------------------------------------
(* A volume boot record at LBA 0.                                           *)

\* Block 0 of the initialized unit as the block buffer holds it once read.
BlockZero ==
    Buffer(IF 0 \in DOMAIN InitializedDisk.blocks THEN InitializedDisk.blocks[0] ELSE <<>>,
           InitializedDisk.block_length, InitializedDisk.tail)

\* Block 0 can be read and the inspection classifies it as a FAT or NTFS volume boot record.
VolumeAtBlockZero ==
    /\ Initialized
    /\ 0 \notin InitializedDisk.bad
    /\ ClassifyVolumeBootRecord(BlockZero, InitializedDisk.block_length) > FsType_Unsupported

\* C29: when block 0 of the unit is classified as a FAT or NTFS volume boot record, the
\* initialization reads block 0 and no other block, calls usbHsFsMountRegisterVolume once, for
\* that type, at LBA 0 and with the block count of the unit, examines no GPT entry, returns what
\* that registration returned and leaves one volume, at LBA 0, when the registration succeeded
\* and none when it failed.
C29_WholeDeviceVolume ==
    VolumeAtBlockZero =>
        /\ BlockReads = <<<<"read", 0, TRUE>>>>
        /\ RegisterVolumeCalls =
               <<<<"RegisterVolume", ClassifyVolumeBootRecord(BlockZero, InitializedDisk.block_length),
                   0, InitializedLun.block_count>>>>
        /\ Len(last.log) >= 2 /\ last.log[1][1] = "read" /\ last.log[2][1] = "RegisterVolume"
        /\ \A k \in 1 .. Len(last.log) : last.log[k][1] \notin {"gpt_entry", "gpt_backup", "gpt_entry_size"}
        /\ Volumes(InitializedLun) =
               (IF last.ret
                THEN <<<<ClassifyVolumeBootRecord(BlockZero, InitializedDisk.block_length), 0>>>>
                ELSE <<>>)
        /\ last.plan = NoPlan => last.ret

\* A unit whose block 0 is an NTFS boot record that also holds a partition entry for a volume
\* further on has been initialized, and its one volume is the NTFS volume at LBA 0.
C29_Witness ==
    /\ NothingFailed
    /\ InitializedDisk.kind = "sfd_hybrid"
    /\ InitializedDisk.parts = <<"ntfs">>
    /\ VolumeAtBlockZero
    /\ Volumes(InitializedLun) = <<<<FsType_NTFS, 0>>>>

----------------------------------------------------------------------------
(* The order of the steps of a destruction.                                 *)

\* The places in the log of the last operation of the events with one of the tags.
EventsAt(tags) == {k \in 1 .. Len(last.log) : last.log[k][1] \in tags}

\* The event of the driver unmount routine of each filesystem type.
UnmountEvent(fs_type) ==
    IF fs_type = FsType_FAT THEN "ff_unmount"
    ELSE IF fs_type = FsType_NTFS THEN "ntfs_umount"
    ELSE "ext_umount"

Before(earlier, later) == \A i \in earlier, j \in later : i < j

\* What C30 and its original statement share: the destruction of a live context removes the
\* virtual device once, calls the unmount routine of the type of the context once and no other,
\* releases the device ID once, and gives the default device back, if the volume held it,
\* before the virtual device is removed, which happens before the unmount routine runs.
DestroySteps ==
    /\ Cardinality(EventsAt({"RemoveDevice"})) = 1
    /\ Cardinality(EventsAt({"ReleaseDeviceId"})) = 1
    /\ Cardinality(EventsAt({"ff_unmount", "ntfs_umount", "ext_umount"})) = 1
    /\ EventsAt({UnmountEvent(last.fs_type)}) # {}
    /\ last.pre[1].default_id = DeviceIdOf(last.p) =>
           /\ g_devoptabDefaultDeviceId = DEVOPTAB_INVALID_ID
           /\ EventsAt({"setDefaultDevice"}) # {}
    /\ Before(EventsAt({"setDefaultDevice"}), EventsAt({"RemoveDevice"}))
    /\ Before(EventsAt({"RemoveDevice"}), EventsAt({UnmountEvent(last.fs_type)}))

\* C30, as the code has it: the destruction of a live context gives the default device back
\* (if the volume held it), then removes the virtual device, then releases the device ID, and
\* calls the driver unmount routine of the type of the context last.
C30_DestroyOrder ==
    DestroyedLive =>
        /\ DestroySteps
        /\ Before(EventsAt({"RemoveDevice"}), EventsAt({"ReleaseDeviceId"}))
        /\ Before(EventsAt({"ReleaseDeviceId"}), EventsAt({UnmountEvent(last.fs_type)}))

\* C30, as stated: the default device is given back before the virtual device is removed, the
\* virtual device is removed before the driver unmount routine runs, and the device ID is
\* released only after the driver unmount.
C30_StatedOrder ==
    DestroyedLive =>
        /\ DestroySteps
        /\ Before(EventsAt({UnmountEvent(last.fs_type)}), EventsAt({"ReleaseDeviceId"}))

\* A volume that was the default device has been destroyed.
C30_Witness ==
    /\ DestroyedLive
    /\ last.pre[1].default_id = DeviceIdOf(last.p)
    /\ EventsAt({"setDefaultDevice"}) # {}
    /\ EventsAt({"ReleaseDeviceId"}) # {}
    /\ EventsAt({UnmountEvent(last.fs_type)}) # {}

----------------------------------------------------------------------------
(* The race specification: volumes are registered while no call is in       *)
(* progress; threads call usbHsFsMountSetDefaultDevoptabDevice and          *)
(* usbHsFsMountDestroyLogicalUnitFileSystemContext, whose steps interleave   *)
(* as g_devoptabDefaultDeviceMutex lets them. The mutex is held by          *)
(* usbHsFsMountSetDefaultDevoptabDevice throughout and by the destruction   *)
(* within usbHsFsMountUnsetDefaultDevoptabDevice only.                      *)

\* usbHsFsMountDestroyLogicalUnitFileSystemContext from RemoveDevice on, once
\* usbHsFsMountUnsetDefaultDevoptabDevice has returned and released the mutex.
DestroyAfterUnset(s, p) ==
    LET fs_ctx == FsCtx(s, p)
        removed == Logged([s EXCEPT !.devoptab_list = RemoveDevice(@, WithColon(fs_ctx.name))],
                          <<"RemoveDevice", fs_ctx.name>>)
        freed == SetFsCtx(removed, p, [fs_ctx EXCEPT !.device = NULL, !.cwd = NULL, !.name = NULL])
        released == Logged([freed EXCEPT !.g_devoptabDeviceIds = RemoveFirstId(@, fs_ctx.device_id)],
                           <<"ReleaseDeviceId", fs_ctx.device_id>>)
    IN  DestroyUnmount(released, p)

\* A volume is registered on logical unit 0 while no call is in progress.
RaceRegister(fs_type) ==
    /\ threads = [t \in Threads |-> IdleThread]
    /\ RegisterVolume(0, fs_type, PartitionStride * (Len(luns[0].fs_ctx) + 1), "none")

\* A thread calls usbHsFsMountDestroyLogicalUnitFileSystemContext(fs_ctx): the context is valid
\* (line 277) and the thread reaches the SCOPED_LOCK of usbHsFsMountUnsetDefaultDevoptabDevice.
\* No two threads destroy at once.
RaceDestroyCall(t, p) ==
    /\ IsLive(p)
    /\ \A u \in Threads : threads[u].op # "Destroy"
    /\ Call(t, "Destroy", p)

\* The body of the block: of usbHsFsMountSetDefaultDevoptabDevice, or of
\* usbHsFsMountUnsetDefaultDevoptabDevice for the device ID of the context being destroyed.
RaceBody(t) ==
    /\ threads[t].pc = "inside"
    /\ \E s \in {IF threads[t].op = "SetDefaultDevice"
                  THEN usbHsFsMountSetDefaultDevoptabDevice(State, threads[t].p)
                  ELSE Returning(usbHsFsMountUnsetDefaultDevoptabDevice(
                                     State, FsCtx(State, threads[t].p).device_id), TRUE)} :
           /\ Becomes(s)
           /\ last' = [NoOperation EXCEPT !.op = IF threads[t].op = "Destroy" THEN "UnsetDefaultDevice"
                                                 ELSE threads[t].op,
                                          !.p = threads[t].p, !.ret = s.ret, !.log = s.log,
                                          !.pre = <<Snapshot(threads[t].p[1])>>]
    /\ threads' = [threads EXCEPT ![t].pc = "leaving"]
    /\ UNCHANGED <<disk, g_devoptabDefaultDeviceMutex>>

\* The thread leaves the block: usbHsFsMountSetDefaultDevoptabDevice returns, the destruction
\* goes on without the mutex.
RaceUnlock(t) ==
    /\ threads[t].pc = "leaving"
    /\ g_devoptabDefaultDeviceMutex' = NoThread
    /\ threads' = [threads EXCEPT ![t] = IF threads[t].op = "Destroy"
                                         THEN [threads[t] EXCEPT !.pc = "unlocked"]
                                         ELSE IdleThread]
    /\ UNCHANGED <<luns, g_devoptabDeviceIds, g_devoptabDefaultDeviceId, g_fatFsVolumeTable,
                   g_fileSystemMountFlags, devoptab_list, defaultDevice, driverMounts, disk, last>>

\* The rest of the destruction, and its return.
RaceDestroyRest(t) ==
    /\ threads[t].pc = "unlocked"
    /\ \E s \in {DestroyAfterUnset(State, threads[t].p)} :
           /\ Becomes(s)
           /\ last' = [NoOperation EXCEPT !.op = "Destroy", !.p = threads[t].p,
                                          !.fs_type = FsCtx(State, threads[t].p).fs_type,
                                          !.log = s.log, !.pre = <<Snapshot(threads[t].p[1])>>]
    /\ threads' = [threads EXCEPT ![t] = IdleThread]
    /\ UNCHANGED <<disk, g_devoptabDefaultDeviceMutex>>

NextRace ==
    \/ \E fs_type \in MountableFsTypes : RaceRegister(fs_type)
    \/ \E t \in Threads, p \in Contexts : Call(t, "SetDefaultDevice", p)
    \/ \E t \in Threads, p \in Contexts : RaceDestroyCall(t, p)
    \/ \E t \in Threads : Lock(t)
    \/ \E t \in Threads : RaceBody(t)
    \/ \E t \in Threads : RaceUnlock(t)
    \/ \E t \in Threads : RaceDestroyRest(t)

SpecRace == Init /\ [][NextRace]_vars

\* The device the C library resolves a path without a device name to.
OsDefaultDevice == devoptab_list[defaultDevice]

\* C31: once a destruction of a context has returned, whatever calls of
\* usbHsFsMountSetDefaultDevoptabDevice for that context ran beside it, g_devoptabDefaultDeviceId
\* is not the device ID of the context and the default device of the C library is not the
\* device of the context.
C31_NoStaleDefaultAsStated ==
    last.op = "Destroy" =>
        /\ g_devoptabDefaultDeviceId # DeviceIdOf(last.p)
        /\ OsDefaultDevice.deviceData # last.p

\* A destruction has returned after a call of usbHsFsMountSetDefaultDevoptabDevice for the same
\* context made the device the default between the release of the mutex and RemoveDevice: the
\* default device of the C library is the slot the removed device has left empty, and no call
\* is in progress.
C31_Witness ==
    /\ last.op = "Destroy"
    /\ threads = [t \in Threads |-> IdleThread]
    /\ defaultDevice # 1
    /\ OsDefaultDevice = dotab_stdnull
    /\ ~IsLive(last.p)

----------------------------------------------------------------------------
(* The recorded default device.                                             *)

\* The live contexts whose device ID is the recorded default device ID.
DefaultVolumes == {p \in LiveContexts : DeviceIdOf(p) = g_devoptabDefaultDeviceId}

\* C32: in every state reached by registrations, default-device changes and destructions made
\* one after the other, g_devoptabDefaultDeviceId is DEVOPTAB_INVALID_ID or the device ID of
\* one live context, whose device is the default device of the C library; and when it is
\* DEVOPTAB_INVALID_ID the default device of the C library is the SD card.
C32_DefaultIsMounted ==
    /\ g_devoptabDefaultDeviceId # DEVOPTAB_INVALID_ID =>
           /\ Cardinality(DefaultVolumes) = 1
           /\ \A p \in DefaultVolumes :
                  /\ OsDefaultDevice.deviceData = p
                  /\ OsDefaultDevice.name = luns[p[1]].fs_ctx[p[2]].name
    /\ g_devoptabDefaultDeviceId = DEVOPTAB_INVALID_ID => OsDefaultDevice = dotab_sdmc

\* The default device is a volume, after the volume that was the default before it has been
\* destroyed.
C32_Witness ==
    /\ g_devoptabDefaultDeviceId # DEVOPTAB_INVALID_ID
    /\ last.op = "SetDefaultDevice" /\ last.ret
    /\ Contexts \ LiveContexts # {}
    /\ \E p \in DefaultVolumes : OsDefaultDevice.deviceData = p

----------------------------------------------------------------------------
(* The superblock specification: usbHsFsMountInspectExtSuperBlock with      *)
(* 64-bit block addresses. A u64 is written as its four 16-bit limbs, the    *)
(* lowest first, so that the conversion to u32 of line 577 is what C makes   *)
(* of it. The unit holds one partition, at opts.block_addr; every block of   *)
(* the unit can be read and a block nothing was written to reads as zeroes.  *)

\* v + k for a u64 v and a small k, modulo 2^64.
U64Add(v, k) ==
    LET a1 == v[1] + k
        a2 == v[2] + (a1 \div 65536)
        a3 == v[3] + (a2 \div 65536)
        a4 == v[4] + (a3 \div 65536)
    IN  <<a1 % 65536, a2 % 65536, a3 % 65536, a4 % 65536>>

\* (u32)v, as a u64 again where it is compared with one or passed as one.
U32Of(v) == <<v[1], v[2], 0, 0>>

\* u32 block_read_addr, u32 block_read_count and the offset of the memcpy (lines 577, 578, 592).
ExtSuperBlockRead(block_length, block_addr) ==
    LET block_read_addr == U32Of(U64Add(block_addr, EXT4_SUPERBLOCK_OFFSET \div block_length))
        block_read_count == IF block_length >= EXT4_SUPERBLOCK_SIZE THEN 1
                            ELSE EXT4_SUPERBLOCK_SIZE \div block_length
    IN  [addr |-> block_read_addr, count |-> block_read_count,
         off |-> IF block_read_count = 1 /\ block_read_addr = block_addr THEN EXT4_SUPERBLOCK_OFFSET ELSE 0]

\* usbHsFsMountInspectExtSuperBlock on the disk d: the superblock is what starts at off of the
\* first block read (its magic number lies within that block for every block length).
InspectExtSuperBlock64(d, block_addr) ==
    LET rd == ExtSuperBlockRead(d.block_length, block_addr)
        data == IF rd.addr \in DOMAIN d.blocks THEN d.blocks[rd.addr] ELSE <<>>
    IN  [ret |-> IF ext4_sb_check(Buffer(data, d.block_length, <<>>), rd.off)
                 THEN FsType_EXT ELSE FsType_Invalid,
         log |-> <<<<"read", rd.addr, rd.count>>, <<"superblock", rd.off>>>>]

\* The block that holds the start of the superblock of a partition at block_addr, and the
\* offset of the superblock in it.
SuperBlockLba(block_length, block_addr) == U64Add(block_addr, EXT4_SUPERBLOCK_OFFSET \div block_length)

SuperBlockOffset(block_length) == EXT4_SUPERBLOCK_OFFSET % block_length

\* A unit with one partition at block_addr. kind "ext": the partition holds an EXT filesystem;
\* "none": nothing was written; "elsewhere": the partition holds nothing, and an EXT
\* superblock lies where a partition that started at (u32)block_addr would have it.
ExtDisk(block_length, block_addr, kind) ==
    LET image(start) ==
            SuperBlockLba(block_length, start) :>
                BytesAt(SuperBlockOffset(block_length) + 56, LEBytes(EXT4_SUPERBLOCK_MAGIC, 2))
    IN  Disk(block_length,
             IF kind = "ext" THEN image(block_addr)
             ELSE IF kind = "elsewhere" THEN image(U32Of(block_addr))
             ELSE <<>>,
             <<>>, "ext64", <<kind>>, [block_addr |-> block_addr])

\* Partition starts: low and high halves of the 64-bit LBA, among them starts at and above 2^32
\* and starts just below it.
ExtBlockAddrs ==
    {<<lo[1], lo[2], hi[1], hi[2]>> :
        lo \in {<<0, 0>>, <<8, 0>>, <<65535, 0>>, <<65534, 65535>>, <<65535, 65535>>},
        hi \in {<<0, 0>>, <<1, 0>>, <<0, 1>>}}

ExtDisks ==
    {ExtDisk(bl, block_addr, kind) :
        bl \in {512, 1024, 2048, 4096}, block_addr \in ExtBlockAddrs, kind \in {"ext", "none"}}
    \cup {ExtDisk(bl, block_addr, "elsewhere") :
             bl \in {512, 1024, 2048, 4096}, block_addr \in {a \in ExtBlockAddrs : U32Of(a) # a}}

InitExt ==
    /\ InitGlobals
    /\ \E d \in ExtDisks :
           /\ disk = [l \in LunIds |-> IF l = 0 THEN d ELSE EmptyDisk]
           /\ luns = [l \in LunIds |-> FreshLun(IF l = 0 THEN d.block_length ELSE 512, BlockCount, FALSE)]

\* usbHsFsMountInspectExtSuperBlock(lun_ctx, block, block_addr) for the partition of the unit.
InspectExtSuperBlock(lun) ==
    /\ last.op = "none"
    /\ disk[lun] # EmptyDisk
    /\ \E r \in {InspectExtSuperBlock64(disk[lun], disk[lun].opts.block_addr)} :
           last' = [NoOperation EXCEPT !.op = "InspectExt", !.p = <<lun>>, !.fs_type = r.ret, !.log = r.log]
    /\ UNCHANGED <<luns, g_devoptabDeviceIds, g_devoptabDefaultDeviceId, g_fatFsVolumeTable,
                   g_fileSystemMountFlags, devoptab_list, defaultDevice, driverMounts, disk,
                   g_devoptabDefaultDeviceMutex, threads>>

NextExt == \E lun \in LunIds : InspectExtSuperBlock(lun)

SpecExt == InitExt /\ [][NextExt]_vars

\* The inspection of the partition of the unit has returned.
InspectedExt == last.op = "InspectExt"

\* The partition start of the inspection, and whether the block the superblock starts in has
\* an address of 32 bits.
InspectedAddr == disk[last.p[1]].opts.block_addr

Within32Bits(v) == v[3] = 0 /\ v[4] = 0

\* C33 as stated: for block lengths of 512, 1024, 2048 and 4096 bytes and every 64-bit
\* partition start, the inspection reads from the block that holds byte 1024 of the partition,
\* takes the superblock from where that byte is in the block, reads 1024 bytes at least, and
\* finds an EXT filesystem exactly when the partition holds one.
C33_SuperBlockAtOffsetAsStated ==
    InspectedExt =>
        /\ last.log[1][2] = SuperBlockLba(disk[last.p[1]].block_length, InspectedAddr)
        /\ last.log[2][2] = SuperBlockOffset(disk[last.p[1]].block_length)
        /\ last.log[1][3] * disk[last.p[1]].block_length >= last.log[2][2] + EXT4_SUPERBLOCK_SIZE
        /\ (last.fs_type = FsType_EXT) <=> (disk[last.p[1]].parts = <<"ext">>)

\* An EXT partition that starts at or above LBA 2^32 has been inspected.
C33_Witness ==
    /\ InspectedExt
    /\ ~Within32Bits(InspectedAddr)
    /\ disk[last.p[1]].parts = <<"ext">>

\* What holds of the code: the claim, for the partitions whose superblock starts in a block
\* with an address of 32 bits.
SuperBlockReadBelow32Bits ==
    (InspectedExt /\ Within32Bits(SuperBlockLba(disk[last.p[1]].block_length, InspectedAddr)))
        => /\ last.log[1][2] = SuperBlockLba(disk[last.p[1]].block_length, InspectedAddr)
           /\ last.log[2][2] = SuperBlockOffset(disk[last.p[1]].block_length)
           /\ (last.fs_type = FsType_EXT) <=> (disk[last.p[1]].parts = <<"ext">>)

----------------------------------------------------------------------------
(* The number of mounted devices.                                           *)

GetMountedDeviceCount == usbHsFsMountGetDevoptabDeviceCount(State)

\* C34: usbHsFsMountGetDevoptabDeviceCount returns the number of live contexts of all logical
\* units; a registration that succeeds leaves it one above the number of IDs there were, one
\* that fails leaves it as it was, and the destruction of a live context leaves it one below.
C34_CountIsLiveVolumes ==
    /\ GetMountedDeviceCount = Cardinality(LiveContexts)
    /\ (last.op = "RegisterVolume" /\ last.ret) => GetMountedDeviceCount = Len(last.pre[1].ids) + 1
    /\ (last.op = "RegisterVolume" /\ ~last.ret) => GetMountedDeviceCount = Len(last.pre[1].ids)
    /\ DestroyedLive => GetMountedDeviceCount = Len(last.pre[1].ids) - 1
    /\ (last.op = "Destroy" /\ ~DestroyedLive) => GetMountedDeviceCount = Len(last.pre[1].ids)

\* A registration has failed while one volume is mounted and a destroyed context is still held
\* by its logical unit.
C34_Witness ==
    /\ last.op = "RegisterVolume" /\ ~last.ret
    /\ GetMountedDeviceCount = 1
    /\ Cardinality(Contexts) = 2

----------------------------------------------------------------------------
(* The index of a filesystem context.                                       *)

\* The indices stored in the contexts of a logical unit, in the order of the sequence.
IndicesOf(lun) == [i \in 1 .. Len(luns[lun].fs_ctx) |-> luns[lun].fs_ctx[i].fs_idx]

\* C35: the index stored in a context is its position in the sequence of its logical unit,
\* counted from zero; a registration that succeeds puts its context last, with the number of
\* contexts there were as its index, and one that fails leaves the sequence as long as it was.
C35_IndexIsPosition ==
    /\ \A lun \in LunIds : \A i \in 1 .. Len(luns[lun].fs_ctx) : IndicesOf(lun)[i] = i - 1
    /\ (last.op = "RegisterVolume" /\ last.ret)
           => /\ Len(luns[last.p[1]].fs_ctx) = last.pre[1].fs_count + 1
              /\ last.p[2] = Len(luns[last.p[1]].fs_ctx)
              /\ FsCtx(State, last.p).fs_idx = last.pre[1].fs_count
    /\ (last.op = "RegisterVolume" /\ ~last.ret)
           => Len(luns[last.p[1]].fs_ctx) = last.pre[1].fs_count

\* A registration on a logical unit that holds two contexts has failed in the driver, after its
\* context had been put third in the sequence: the two contexts are left, with indices 0 and 1.
C35_Witness ==
    /\ last.op = "RegisterVolume" /\ ~last.ret
    /\ last.fault \notin {"none", "realloc_fs_ctx", "calloc_fs_ctx"}
    /\ last.pre[1].fs_count = 2
    /\ IndicesOf(last.p[1]) = <<0, 1>>

----------------------------------------------------------------------------
(* Mount flags: registrations between calls of                              *)
(* usbHsFsMountSetFileSystemMountFlags. The record of the last operation    *)
(* keeps, for every context, the value g_fileSystemMountFlags had when the  *)
(* context was registered, and the flags the operation was called with or   *)
(* found in force.                                                          *)

FlagsRecord(at, arg) == <<[at |-> at, arg |-> arg]>>

\* No context is registered before the first operation.
RegisteredFlags == IF last.pre = <<>> THEN [p \in {} |-> {}] ELSE last.pre[1].at

\* The failure points of the registrations: none, and the two that all filesystem types share
\* before and after the context is put in the sequence.
FlagsFaults == {"none", "calloc_fs_ctx", "AddDevice"}

FlagsRegister(lun, fs_type, fault) ==
    /\ Cardinality(Contexts) < MaxVolumes
    /\ \A i \in 1 .. Len(luns[lun].fs_ctx) : IsLive(<<lun, i>>)
    /\ \E p \in {<<lun, Len(luns[lun].fs_ctx) + 1>>} :
       \E s \in {usbHsFsMountRegisterVolume(State, lun, PartitionStride * p[2],
                                            luns[lun].block_count - PartitionStride * p[2],
                                            fs_type, fault)} :
           /\ Becomes(s)
           /\ last' = [NoOperation EXCEPT
                           !.op = "RegisterVolume", !.p = p, !.ret = s.ret,
                           !.pre = FlagsRecord(
                                       IF s.ret
                                       THEN [q \in (DOMAIN RegisteredFlags) \cup {p} |->
                                                IF q = p THEN usbHsFsMountGetFileSystemMountFlags(State)
                                                         ELSE RegisteredFlags[q]]
                                       ELSE RegisteredFlags,
                                       usbHsFsMountGetFileSystemMountFlags(State))]
    /\ UNCHANGED <<disk, g_devoptabDefaultDeviceMutex, threads>>

FlagsDestroy(p) ==
    /\ \E s \in {usbHsFsMountDestroyLogicalUnitFileSystemContext(State, p)} :
           /\ Becomes(s)
           /\ last' = [NoOperation EXCEPT
                           !.op = "Destroy", !.p = p,
                           !.pre = FlagsRecord(RegisteredFlags, usbHsFsMountGetFileSystemMountFlags(State))]
    /\ UNCHANGED <<disk, g_devoptabDefaultDeviceMutex, threads>>

SetMountFlags(flags) ==
    /\ Becomes(usbHsFsMountSetFileSystemMountFlags(State, flags))
    /\ last' = [NoOperation EXCEPT !.op = "SetMountFlags", !.pre = FlagsRecord(RegisteredFlags, flags)]
    /\ UNCHANGED <<disk, g_devoptabDefaultDeviceMutex, threads>>

NextFlags ==
    \/ \E lun \in LunIds, fs_type \in MountableFsTypes, fault \in FlagsFaults :
           FlagsRegister(lun, fs_type, fault)
    \/ \E p \in Contexts : FlagsDestroy(p)
    \/ \E flags \in MountFlagChoices : SetMountFlags(flags)

SpecFlags == Init /\ [][NextFlags]_vars

GetMountFlags == usbHsFsMountGetFileSystemMountFlags(State)

ContextFlags == [p \in Contexts |-> FsCtx(State, p).flags]

\* C36: the flags of every context are the process-wide flags that were in force when it was
\* registered; usbHsFsMountSetFileSystemMountFlags makes its argument the value that
\* usbHsFsMountGetFileSystemMountFlags returns and changes nothing else, the flags of the
\* registered contexts included.
C36_FlagsFixedAtRegistration ==
    /\ [](ContextFlags = RegisteredFlags)
    /\ []((last.op = "RegisterVolume" /\ last.ret) => ContextFlags[last.p] = last.pre[1].arg)
    /\ [](last.op = "SetMountFlags" => GetMountFlags = last.pre[1].arg)
    /\ [][last'.op = "SetMountFlags" =>
              /\ ContextFlags' = ContextFlags
              /\ UNCHANGED <<luns, g_devoptabDeviceIds, g_devoptabDefaultDeviceId, g_fatFsVolumeTable,
                             devoptab_list, defaultDevice, driverMounts, disk>>]_vars

\* The flags were set after two registrations under different flags: one of the two contexts
\* holds the flags now in force, the other does not.
C36_Witness ==
    /\ last.op = "SetMountFlags"
    /\ \E p, q \in LiveContexts : ContextFlags[p] = GetMountFlags /\ ContextFlags[q] # GetMountFlags

====
